---- MODULE Spec2Model ----
(***************************************************************************)
(* Model of the Anchor programs of the repository: programs/staking,        *)
(* programs/multisig, programs/ico and programs/vesting (src/lib.rs of      *)
(* each).  The programs share no account: an instruction of one leaves      *)
(* the accounts of the others alone.                                        *)
(*                                                                         *)
(* Every instruction handler is one atomic action (a Solana transaction    *)
(* commits all of its account writes and token transfers, or none).  An    *)
(* instruction whose handler returns an error, panics, or whose token      *)
(* transfer fails is rolled back by the runtime and leaves every account   *)
(* as it was: it is a stuttering step.  What such an instruction returns   *)
(* is the value of the handler's *_error operator in the state it is       *)
(* submitted in.  `last` names the instruction that committed last.        *)
(*                                                                         *)
(* Anchor's account constraints (init, seeds, bump) are evaluated before   *)
(* the handler body and are the guards of the actions: a pool is           *)
(* addressed by (creator, pool_id), a deposit by (staker, pool,            *)
(* deposit_id) where staker is the signer, and `init` accounts must not    *)
(* exist yet.  The accounts that carry NO constraint in the source         *)
(* (pool_vault in CreateDeposit and UpdatePool) are inputs of the action.  *)
(*                                                                         *)
(* u64 is modelled at Width bits and u128 at 2*Width bits (the vesting     *)
(* program, whose percentages need room, at VestingWidth bits).  The program *)
(* is built with overflow-checks (Anchor's build requires the release      *)
(* profile to state it), so +=, -= and / panic on overflow, underflow and  *)
(* division by zero; a panic aborts the instruction ("Panic").             *)
(***************************************************************************)
EXTENDS Integers, FiniteSets, Sequences, TLC

\* ---------------------------------------------------------------- bounds
Width == 3
MaxAmount == 2
MaxTime == 1
InitBalance == 2

U64Max == 2^Width - 1
U128Max == 2^(2 * Width) - 1

Creators == {"alice"}
Stakers == {"alice", "bob"}
Users == Creators \cup Stakers
PoolIds == {1}
TwoPoolIds == {1, 2}
DepositIds == {1}
TwoDepositIds == {1, 2}
Amounts == 0..MaxAmount
Cooldowns == {0, 1}

\* staking: the StakingPool, StakerDeposit and StakerStats accounts, the token
\* accounts; the cluster clock; the instruction that committed last.
VARIABLES pools, deposits, staker_stats, pool_vault, balance, now, last

\* multisig: the MultisigVault and TransferProposal accounts, the SOL and
\* tokens each vault holds, the SOL and tokens each key holds.
VARIABLES vaults, proposals, vault_funds, wallet

staking_vars == <<pools, deposits, staker_stats, pool_vault, balance>>

\* ico: the PresalePool and ContributorProfile accounts, the lamports each
\* presale account holds, the tokens in each presale vault, the SOL and tokens
\* each key holds.
VARIABLES presales, profiles, presale_lamports, presale_vault, holdings

multisig_vars == <<vaults, proposals, vault_funds, wallet>>

presale_vars == <<presales, profiles, presale_lamports, presale_vault, holdings>>

\* vesting: the VestingSchedule accounts, the tokens in each schedule's vault,
\* the tokens each key holds.
VARIABLES schedules, schedule_vault, token_accounts

vesting_vars == <<schedules, schedule_vault, token_accounts>>

vars == <<staking_vars, multisig_vars, presale_vars, vesting_vars, now, last>>

\* ------------------------------------------------------ arithmetic helpers
\* `a as u128 * b as u128`
u128_mul(a, b) == (a * b) % (U128Max + 1)

\* `x as u64`
as_u64(x) == x % (U64Max + 1)

\* Mutant: the quotient is rounded up.
economy_estimate_rewards_ceil(total_staked_tokens, user_staked_tokens, total_rewards) ==
    as_u64((u128_mul(user_staked_tokens, total_rewards) + total_staked_tokens - 1)
               \div total_staked_tokens)

\* Mutant: the product is formed in u64 and wraps before the division.
economy_estimate_rewards_narrow(total_staked_tokens, user_staked_tokens, total_rewards) ==
    as_u64(as_u64(user_staked_tokens * total_rewards) \div total_staked_tokens)

\* Mutant: the pool total and the user's stake are passed in each other's place.
economy_estimate_rewards_swapped(total_staked_tokens, user_staked_tokens, total_rewards) ==
    IF user_staked_tokens = 0 THEN 0
    ELSE as_u64(u128_mul(total_staked_tokens, total_rewards) \div user_staked_tokens)

economy_estimate_rewards(total_staked_tokens, user_staked_tokens, total_rewards) ==
    as_u64(u128_mul(user_staked_tokens, total_rewards) \div total_staked_tokens)

\* Mutant: a transfer is taken to succeed whatever the source holds.
transfer_checked_unchecked(source_balance, amount) == "Ok"

\* SPL token transfer_checked: fails when the source holds less than amount.
transfer_checked(source_balance, amount) ==
    IF source_balance < amount THEN "InsufficientFunds" ELSE "Ok"

\* ------------------------------------------------------------- last outcome
Outcome(op, signer, pk, id) ==
    [op |-> op, signer |-> signer, pool |-> pk, deposit_id |-> id]

NoPool == <<"none", 0>>

\* A failed instruction: nothing is committed.
Fail == UNCHANGED vars

\* --------------------------------------------------------------- multisig
\* `signers.len() <= 5`
MaxSigners == 5

MaxThreshold == 3

Keys == {"alice", "bob", "carol"}

\* The signer lists handed to create_vault: empty, one key, two keys, three
\* keys, a repeated key, and more keys than a vault may have.
SignerLists ==
    {<<>>, <<"alice">>, <<"alice", "bob">>, <<"bob", "carol", "alice">>,
     <<"alice", "alice">>,
     <<"alice", "bob", "carol", "alice", "bob", "carol">>}

Thresholds == 0..MaxThreshold

VaultIds == {1}
ProposalIds == {1}

\* Option<Pubkey>: None (a SOL transfer) or Some(mint).
NoMint == "none"
Mints == {"mint", "other_mint"}

\* The assets a vault holds: lamports of its vault_sol PDA, and tokens of
\* "mint" in the token account the vault PDA owns.
Assets == {"sol", "token"}

\* No vault and no proposal exist; one key holds SOL and tokens.
multisig_init ==
    /\ vaults = <<>>
    /\ proposals = <<>>
    /\ vault_funds = <<>>
    /\ wallet = [k \in Keys |-> [a \in Assets |-> IF k = "alice" THEN InitBalance ELSE 0]]

\* -------------------------------------------------------------------- ico
MaxCap == 3

\* `token_mint.decimals` of the mint on sale.
MintDecimals == 0

\* `rent.minimum_balance(8 + PresalePool::INIT_SPACE)`: the lamports a presale
\* account is created with.
RentMinimum == 1

PresaleIds == {1}
Authorities == {"alice"}
Contributors == {"bob", "carol"}

\* The parameters handed to create_presale_pool, valid and invalid
\* combinations included.
SoftCaps == {1, MaxCap - 1}
HardCaps == {1, MaxCap}
MinContributions == {0, 1}
MaxContributions == {0, MaxAmount}
StartTimestamps == {-1, MaxTime}
EndTimestamps == {0, MaxTime + 1}
Prices == {0, 1, 2}
TokensForSale == {0, InitBalance, InitBalance + 1}

\* No presale and no profile exist; the authority holds the tokens on sale and
\* every contributor holds SOL.
presale_init ==
    /\ presales = <<>>
    /\ profiles = <<>>
    /\ presale_lamports = <<>>
    /\ presale_vault = <<>>
    /\ holdings = [k \in Keys |->
                      [sol |-> IF k \in Contributors THEN InitBalance ELSE 0,
                       token |-> IF k \in Authorities THEN InitBalance ELSE 0]]

\* ---------------------------------------------------------------- vesting
\* The u64 of the vesting program is VestingWidth bits wide and its i64 has
\* one bit less: wide enough for total_amount * unlock_percentage to fit for
\* some schedules and to overflow for others.
VestingWidth == 8
MaxVestingTime == 4
VestingBalance == 5

VestingU64Max == 2^VestingWidth - 1
VestingI64Max == 2^(VestingWidth - 1) - 1

VestingCreators == {"alice"}
Beneficiaries == {"bob"}

\* The parameters handed to create_vesting, valid and invalid ones included.
CliffDurations == {0, 1, VestingI64Max}
IntervalDurations == {0, 1, 2}
UnlockPercentages == {0, 40, 50, 100, 101}
TotalAmounts == {0, 1, 2, 3, VestingBalance, VestingBalance + 1}

\* No schedule exists; every creator holds VestingBalance tokens of the mint.
vesting_init ==
    /\ schedules = <<>>
    /\ schedule_vault = <<>>
    /\ token_accounts = [k \in Keys |-> IF k \in VestingCreators THEN VestingBalance ELSE 0]

\* ------------------------------------------------------------------- Init
\* No pool, no deposit; every user holds creator_balance, resp. staker_balance,
\* tokens of the mint.
InitWith(creator_balance, staker_balance) ==
    /\ pools = <<>>
    /\ deposits = <<>>
    /\ staker_stats = [u \in Users |-> 0]
    /\ pool_vault = <<>>
    /\ balance = [u \in Users |-> IF u \in Creators THEN creator_balance ELSE staker_balance]
    /\ multisig_init
    /\ presale_init
    /\ vesting_init
    /\ now = 0
    /\ last = Outcome("init", "none", NoPool, 0)

Init == InitWith(InitBalance, InitBalance)

\* ------------------------------------------------------------ create_pool
create_pool_record(initial_funding_amount, claim_cooldown) ==
    [current_tokens_staked |-> 0,
     current_rewards |-> initial_funding_amount,
     claim_cooldown |-> claim_cooldown,
     emergency_mode_enabled |-> FALSE]

create_pool_error(creator_balance, initial_funding_amount) ==
    IF initial_funding_amount > 0
    THEN transfer_checked(creator_balance, initial_funding_amount)
    ELSE "Ok"

create_pool(creator, pool_id, initial_funding_amount, claim_cooldown) ==
    LET pk == <<creator, pool_id>>
        err == create_pool_error(balance[creator], initial_funding_amount)
    IN  /\ pk \notin DOMAIN pools
        /\ IF err = "Ok"
           THEN /\ pools' = pools @@ (pk :> create_pool_record(initial_funding_amount, claim_cooldown))
                /\ pool_vault' = pool_vault @@ (pk :> initial_funding_amount)
                /\ balance' = [balance EXCEPT ![creator] = @ - initial_funding_amount]
                /\ last' = Outcome("create_pool", creator, pk, 0)
                /\ UNCHANGED <<deposits, staker_stats, now>>
           ELSE Fail

\* The pool_vault account of CreateDeposit and UpdatePool carries no
\* constraint: the signer may pass the pool's own vault ("vault") or any other
\* token account of the mint ("other", an account no pool owns).
VaultArgs == {"vault", "other"}

\* Mutant: every pool of a creator keeps its tokens in the vault of pool 1.
deposit_vault_shared(pk, vault_arg, amount) ==
    IF vault_arg = "vault" /\ <<pk[1], 1>> \in DOMAIN pool_vault
    THEN [pool_vault EXCEPT ![<<pk[1], 1>>] = @ + amount]
    ELSE pool_vault

\* Effect on the vaults of a transfer of amount from the signer's account to
\* the account passed as pool_vault.
deposit_vault(pk, vault_arg, amount) ==
    IF vault_arg = "vault" THEN [pool_vault EXCEPT ![pk] = @ + amount] ELSE pool_vault

deposit_balance(signer, amount) ==
    [balance EXCEPT ![signer] = @ - amount]

\* -------------------------------------------------------------- fund_pool
fund_pool_record(pool, amount) ==
    [pool EXCEPT !.current_rewards = @ + amount]

fund_pool_error(pool, pool_creator, signer, signer_balance, amount) ==
    IF pool_creator # signer THEN "UnauthorizedPoolAccess"
    ELSE IF pool.current_rewards + amount > U64Max THEN "Panic"
    ELSE transfer_checked(signer_balance, amount)

fund_pool(signer, pk, amount, vault_arg) ==
    /\ pk \in DOMAIN pools
    /\ LET err == fund_pool_error(pools[pk], pk[1], signer, balance[signer], amount)
       IN  IF err = "Ok"
           THEN /\ pools' = [pools EXCEPT ![pk] = fund_pool_record(@, amount)]
                /\ pool_vault' = deposit_vault(pk, vault_arg, amount)
                /\ balance' = deposit_balance(signer, amount)
                /\ last' = Outcome("fund_pool", signer, pk, 0)
                /\ UNCHANGED <<deposits, staker_stats, now>>
           ELSE Fail

\* -------------------------------------------------- enable_emergency_mode
\* Mutant: the already-enabled check is missing.
enable_emergency_mode_error_no_check(pool, pool_creator, signer) ==
    IF pool_creator # signer THEN "UnauthorizedPoolAccess" ELSE "Ok"

enable_emergency_mode_error(pool, pool_creator, signer) ==
    IF pool_creator # signer THEN "UnauthorizedPoolAccess"
    ELSE IF pool.emergency_mode_enabled THEN "EmergencyModeAlreadyEnabled"
    ELSE "Ok"

enable_emergency_mode_record(pool) ==
    [pool EXCEPT !.emergency_mode_enabled = TRUE]

enable_emergency_mode(signer, pk) ==
    /\ pk \in DOMAIN pools
    /\ LET err == enable_emergency_mode_error(pools[pk], pk[1], signer)
       IN  IF err = "Ok"
           THEN /\ pools' = [pools EXCEPT ![pk] = enable_emergency_mode_record(@)]
                /\ last' = Outcome("enable_emergency_mode", signer, pk, 0)
                /\ UNCHANGED <<deposits, staker_stats, pool_vault, balance, now>>
           ELSE Fail

\* --------------------------------------------------- change_pool_cooldown
\* Mutant: the creator check is missing.
change_pool_cooldown_error_open(pool_creator, signer) == "Ok"

change_pool_cooldown_error(pool_creator, signer) ==
    IF pool_creator # signer THEN "UnauthorizedPoolAccess" ELSE "Ok"

change_pool_cooldown_record(pool, new_cooldown) ==
    [pool EXCEPT !.claim_cooldown = new_cooldown]

change_pool_cooldown(signer, pk, new_cooldown) ==
    /\ pk \in DOMAIN pools
    /\ LET err == change_pool_cooldown_error(pk[1], signer)
       IN  IF err = "Ok"
           THEN /\ pools' = [pools EXCEPT ![pk] = change_pool_cooldown_record(@, new_cooldown)]
                /\ last' = Outcome("change_pool_cooldown", signer, pk, 0)
                /\ UNCHANGED <<deposits, staker_stats, pool_vault, balance, now>>
           ELSE Fail

\* ------------------------------------------------------------------ stake
stake_deposit(deposit_amount, clock, pool) ==
    [tokens_deposited |-> deposit_amount,
     tokens_claimed |-> 0,
     unlock_timestamp |-> clock + pool.claim_cooldown,
     is_withdrawn |-> FALSE,
     is_cooldown_active |-> FALSE]

\* Mutant: the aggregate is overwritten instead of increased.
stake_stats_overwrite(total_staked, deposit_amount) == deposit_amount

stake_stats(total_staked, deposit_amount) == total_staked + deposit_amount

stake_pool(pool, deposit_amount) ==
    [pool EXCEPT !.current_tokens_staked = @ + deposit_amount]

stake_error(pool, total_staked, staker_balance, deposit_amount) ==
    IF pool.emergency_mode_enabled # FALSE THEN "EmergencyModeEnabled"
    ELSE IF stake_stats(total_staked, deposit_amount) > U64Max THEN "Panic"
    ELSE IF stake_pool(pool, deposit_amount).current_tokens_staked > U64Max THEN "Panic"
    ELSE transfer_checked(staker_balance, deposit_amount)

stake(staker, pk, deposit_id, deposit_amount, vault_arg) ==
    LET dk == <<staker, pk, deposit_id>> IN
    /\ pk \in DOMAIN pools
    /\ dk \notin DOMAIN deposits
    /\ LET err == stake_error(pools[pk], staker_stats[staker], balance[staker], deposit_amount)
       IN  IF err = "Ok"
           THEN /\ deposits' = deposits @@ (dk :> stake_deposit(deposit_amount, now, pools[pk]))
                /\ staker_stats' = [staker_stats EXCEPT ![staker] = stake_stats(@, deposit_amount)]
                /\ pools' = [pools EXCEPT ![pk] = stake_pool(@, deposit_amount)]
                /\ pool_vault' = deposit_vault(pk, vault_arg, deposit_amount)
                /\ balance' = deposit_balance(staker, deposit_amount)
                /\ last' = Outcome("stake", staker, pk, deposit_id)
                /\ UNCHANGED now
           ELSE Fail

\* ------------------------------------------------------ activate_cooldown
\* Mutant: the already-activated check is missing.
activate_cooldown_error_rearm(deposit) ==
    IF deposit.is_withdrawn # FALSE THEN "DepositAlreadyWithdrawn" ELSE "Ok"

activate_cooldown_error(deposit) ==
    IF deposit.is_withdrawn # FALSE THEN "DepositAlreadyWithdrawn"
    ELSE IF deposit.is_cooldown_active # FALSE THEN "CooldownAlreadyActivated"
    ELSE "Ok"

\* Mutant: the unlock time computed by stake is kept.
activate_cooldown_deposit_stale(deposit, clock, pool) ==
    [deposit EXCEPT !.is_cooldown_active = TRUE]

activate_cooldown_deposit(deposit, clock, pool) ==
    [deposit EXCEPT !.is_cooldown_active = TRUE,
                    !.unlock_timestamp = clock + pool.claim_cooldown]

\* The deposit account of ActivateDepositCooldown, UnstakeDeposit and
\* UnstakeDepositEmergency must sit at the address derived from the signing
\* staker, the pool and the deposit id; dk is the address of the account passed.
\* Mutant: the deposit account is not checked against the signer.
deposit_seeds_error_unchecked(staker, pk, deposit_id, dk) == "Ok"

deposit_seeds_error(staker, pk, deposit_id, dk) ==
    IF dk # <<staker, pk, deposit_id>> THEN "ConstraintSeeds" ELSE "Ok"

activate_cooldown(staker, owner, pk, deposit_id) ==
    LET dk == <<owner, pk, deposit_id>> IN
    /\ dk \in DOMAIN deposits
    /\ LET err == IF deposit_seeds_error(staker, pk, deposit_id, dk) # "Ok"
                  THEN deposit_seeds_error(staker, pk, deposit_id, dk)
                  ELSE activate_cooldown_error(deposits[dk])
       IN  IF err = "Ok"
           THEN /\ deposits' = [deposits EXCEPT ![dk] = activate_cooldown_deposit(@, now, pools[pk])]
                /\ last' = Outcome("activate_cooldown", staker, pk, deposit_id)
                /\ UNCHANGED <<pools, staker_stats, pool_vault, balance, now>>
           ELSE Fail

\* ---------------------------------------------------------------- unstake
\* Mutant: the emergency-mode check is missing.
unstake_require_no_emergency(pool, deposit, clock) ==
    IF deposit.is_withdrawn # FALSE THEN "DepositAlreadyWithdrawn"
    ELSE IF deposit.is_cooldown_active # TRUE THEN "ClaimCooldownNotActive"
    ELSE IF ~(clock >= deposit.unlock_timestamp) THEN "ClaimCooldownNotElapsed"
    ELSE "Ok"

\* Mutant: the withdrawn check comes before the emergency-mode check.
unstake_require_withdrawn_first(pool, deposit, clock) ==
    IF deposit.is_withdrawn # FALSE THEN "DepositAlreadyWithdrawn"
    ELSE IF pool.emergency_mode_enabled # FALSE THEN "EmergencyModeEnabled"
    ELSE IF deposit.is_cooldown_active # TRUE THEN "ClaimCooldownNotActive"
    ELSE IF ~(clock >= deposit.unlock_timestamp) THEN "ClaimCooldownNotElapsed"
    ELSE "Ok"

unstake_require(pool, deposit, clock) ==
    IF pool.emergency_mode_enabled # FALSE THEN "EmergencyModeEnabled"
    ELSE IF deposit.is_withdrawn # FALSE THEN "DepositAlreadyWithdrawn"
    ELSE IF deposit.is_cooldown_active # TRUE THEN "ClaimCooldownNotActive"
    ELSE IF ~(clock >= deposit.unlock_timestamp) THEN "ClaimCooldownNotElapsed"
    ELSE "Ok"

\* Mutant: the reward paid is not recorded in the deposit.
unstake_deposit_unclaimed(deposit, user_rewards) ==
    [deposit EXCEPT !.is_withdrawn = TRUE]

unstake_deposit(deposit, user_rewards) ==
    [deposit EXCEPT !.is_withdrawn = TRUE, !.tokens_claimed = user_rewards]

unstake_stats(total_staked, user_total_staked_tokens) ==
    total_staked - user_total_staked_tokens

\* Mutant: the principal paid stays counted in the pool's staked tokens.
unstake_pool_staked_kept(pool, user_total_staked_tokens, user_rewards) ==
    [pool EXCEPT !.current_rewards = @ - user_rewards]

\* Mutant: the reward paid stays counted in the pool's rewards.
unstake_pool_rewards_kept(pool, user_total_staked_tokens, user_rewards) ==
    [pool EXCEPT !.current_tokens_staked = @ - user_total_staked_tokens]

unstake_pool(pool, user_total_staked_tokens, user_rewards) ==
    [pool EXCEPT !.current_rewards = @ - user_rewards,
                 !.current_tokens_staked = @ - user_total_staked_tokens]

\* Mutant: the reward is sent before the principal.
unstake_transfers_reward_first(deposit, user_rewards) ==
    <<user_rewards, deposit.tokens_deposited>>

\* The amounts of the vault transfers the handler issues, in the order it
\* issues them: the principal, then the reward.
unstake_transfers(deposit, user_rewards) ==
    <<deposit.tokens_deposited, user_rewards>>

\* The outcome of the handler body after the require! checks: the division of
\* economy_estimate_rewards, the three subtractions, then the two transfers.
unstake_execute(pool, deposit, total_staked, vault_balance) ==
    IF pool.current_tokens_staked = 0 THEN "Panic"
    ELSE LET user_rewards == economy_estimate_rewards(pool.current_tokens_staked,
                                 deposit.tokens_deposited, pool.current_rewards)
         IN  IF unstake_stats(total_staked, deposit.tokens_deposited) < 0 THEN "Panic"
             ELSE IF unstake_pool(pool, deposit.tokens_deposited, user_rewards).current_rewards < 0
                  THEN "Panic"
             ELSE IF unstake_pool(pool, deposit.tokens_deposited, user_rewards).current_tokens_staked < 0
                  THEN "Panic"
             ELSE IF transfer_checked(vault_balance,
                                      unstake_transfers(deposit, user_rewards)[1]) # "Ok"
                  THEN "InsufficientFunds"
             ELSE transfer_checked(vault_balance - unstake_transfers(deposit, user_rewards)[1],
                                   unstake_transfers(deposit, user_rewards)[2])

unstake_error(pool, deposit, total_staked, vault_balance, clock) ==
    IF unstake_require(pool, deposit, clock) # "Ok"
    THEN unstake_require(pool, deposit, clock)
    ELSE unstake_execute(pool, deposit, total_staked, vault_balance)

unstake(staker, owner, pk, deposit_id) ==
    LET dk == <<owner, pk, deposit_id>> IN
    /\ dk \in DOMAIN deposits
    /\ LET pool == pools[pk]
           deposit == deposits[dk]
           err == IF deposit_seeds_error(staker, pk, deposit_id, dk) # "Ok"
                  THEN deposit_seeds_error(staker, pk, deposit_id, dk)
                  ELSE unstake_error(pool, deposit, staker_stats[staker], pool_vault[pk], now)
       IN  IF err = "Ok"
           THEN LET user_rewards == economy_estimate_rewards(pool.current_tokens_staked,
                                        deposit.tokens_deposited, pool.current_rewards)
                IN  /\ deposits' = [deposits EXCEPT ![dk] = unstake_deposit(@, user_rewards)]
                    /\ staker_stats' = [staker_stats EXCEPT
                                           ![staker] = unstake_stats(@, deposit.tokens_deposited)]
                    /\ pools' = [pools EXCEPT
                                    ![pk] = unstake_pool(@, deposit.tokens_deposited, user_rewards)]
                    /\ pool_vault' = [pool_vault EXCEPT
                                         ![pk] = @ - unstake_transfers(deposit, user_rewards)[1]
                                                   - unstake_transfers(deposit, user_rewards)[2]]
                    /\ balance' = [balance EXCEPT
                                      ![staker] = @ + unstake_transfers(deposit, user_rewards)[1]
                                                    + unstake_transfers(deposit, user_rewards)[2]]
                    /\ last' = Outcome("unstake", staker, pk, deposit_id)
                    /\ UNCHANGED now
           ELSE Fail

\* ------------------------------------------------------ unstake_emergency
\* Mutant: the deposit is recorded as having claimed a reward.
unstake_emergency_deposit_claimed(deposit) ==
    [deposit EXCEPT !.is_withdrawn = TRUE, !.tokens_claimed = deposit.tokens_deposited]

unstake_emergency_deposit(deposit) ==
    [deposit EXCEPT !.is_withdrawn = TRUE]

unstake_emergency_stats(total_staked, tokens_deposited) ==
    total_staked - tokens_deposited

\* Mutant: the pool total is not decreased.
unstake_emergency_pool_kept(pool, tokens_deposited) == pool

unstake_emergency_pool(pool, tokens_deposited) ==
    [pool EXCEPT !.current_tokens_staked = @ - tokens_deposited]

\* Mutant: the withdrawn check is missing.
unstake_emergency_error_no_withdrawn(pool, deposit, total_staked, vault_balance) ==
    IF transfer_checked(vault_balance, deposit.tokens_deposited) # "Ok"
    THEN "InsufficientFunds"
    ELSE IF pool.emergency_mode_enabled # TRUE THEN "EmergencyModeNotEnabled"
    ELSE IF total_staked - deposit.tokens_deposited < 0 THEN "Panic"
    ELSE IF pool.current_tokens_staked - deposit.tokens_deposited < 0 THEN "Panic"
    ELSE "Ok"

\* The handler issues the transfer first and checks afterwards.
unstake_emergency_error(pool, deposit, total_staked, vault_balance) ==
    IF transfer_checked(vault_balance, deposit.tokens_deposited) # "Ok"
    THEN "InsufficientFunds"
    ELSE IF pool.emergency_mode_enabled # TRUE THEN "EmergencyModeNotEnabled"
    ELSE IF deposit.is_withdrawn # FALSE THEN "DepositAlreadyWithdrawn"
    ELSE IF unstake_emergency_stats(total_staked, deposit.tokens_deposited) < 0 THEN "Panic"
    ELSE IF unstake_emergency_pool(pool, deposit.tokens_deposited).current_tokens_staked < 0
         THEN "Panic"
    ELSE "Ok"

unstake_emergency(staker, owner, pk, deposit_id) ==
    LET dk == <<owner, pk, deposit_id>> IN
    /\ dk \in DOMAIN deposits
    /\ LET pool == pools[pk]
           deposit == deposits[dk]
           err == IF deposit_seeds_error(staker, pk, deposit_id, dk) # "Ok"
                  THEN deposit_seeds_error(staker, pk, deposit_id, dk)
                  ELSE unstake_emergency_error(pool, deposit, staker_stats[staker], pool_vault[pk])
       IN  IF err = "Ok"
           THEN /\ pool_vault' = [pool_vault EXCEPT ![pk] = @ - deposit.tokens_deposited]
                /\ balance' = [balance EXCEPT ![staker] = @ + deposit.tokens_deposited]
                /\ deposits' = [deposits EXCEPT ![dk] = unstake_emergency_deposit(@)]
                /\ staker_stats' = [staker_stats EXCEPT
                                       ![staker] = unstake_emergency_stats(@, deposit.tokens_deposited)]
                /\ pools' = [pools EXCEPT
                                ![pk] = unstake_emergency_pool(@, deposit.tokens_deposited)]
                /\ last' = Outcome("unstake_emergency", staker, pk, deposit_id)
                /\ UNCHANGED now
           ELSE Fail

\* --------------------------------------------- withdraw_rewards_emergency
withdraw_rewards_emergency_error(pool, pool_creator, signer, vault_balance) ==
    IF pool_creator # signer THEN "UnauthorizedPoolAccess"
    ELSE IF ~pool.emergency_mode_enabled THEN "EmergencyModeNotEnabled"
    ELSE transfer_checked(vault_balance, pool.current_rewards)

withdraw_rewards_emergency_pool(pool) ==
    [pool EXCEPT !.current_rewards = 0]

\* Mutant: the amount is read after the zeroing.
withdraw_rewards_emergency_amount_zeroed(pool) ==
    withdraw_rewards_emergency_pool(pool).current_rewards

\* The amount transferred: current_rewards_in_pool, read before the zeroing.
\* Mutant: the creator is paid everything the pool accounts for.
withdraw_rewards_emergency_amount_all(pool) ==
    pool.current_rewards + pool.current_tokens_staked

withdraw_rewards_emergency_amount(pool) == pool.current_rewards

withdraw_rewards_emergency(signer, pk) ==
    /\ pk \in DOMAIN pools
    /\ LET pool == pools[pk]
           err == withdraw_rewards_emergency_error(pool, pk[1], signer, pool_vault[pk])
       IN  IF err = "Ok"
           THEN /\ pools' = [pools EXCEPT ![pk] = withdraw_rewards_emergency_pool(@)]
                /\ pool_vault' = [pool_vault EXCEPT
                                     ![pk] = @ - withdraw_rewards_emergency_amount(pool)]
                /\ balance' = [balance EXCEPT
                                  ![signer] = @ + withdraw_rewards_emergency_amount(pool)]
                /\ last' = Outcome("withdraw_rewards_emergency", signer, pk, 0)
                /\ UNCHANGED <<deposits, staker_stats, now>>
           ELSE Fail

\* ------------------------------------------- the records at the transfer
\* What the accounts of a handler hold at the moment it issues its vault
\* transfer: unstake has written the deposit by then, unstake_emergency has
\* not, withdraw_rewards_emergency has zeroed the pool's rewards.
unstake_deposit_at_transfer(deposit, user_rewards) == unstake_deposit(deposit, user_rewards)

unstake_emergency_deposit_at_transfer(deposit) == deposit

withdraw_rewards_emergency_pool_at_transfer(pool) == withdraw_rewards_emergency_pool(pool)

Tick ==
    /\ now < MaxTime
    /\ now' = now + 1
    /\ last' = Outcome("tick", "none", NoPool, 0)
    /\ UNCHANGED <<staking_vars, multisig_vars, presale_vars, vesting_vars>>

\* An instruction of the staking program touches no account of another program.
staking_frame == UNCHANGED <<multisig_vars, presale_vars, vesting_vars>>

\* The instructions of the staking program, with their inputs drawn from the
\* given sets; they touch no account of the other programs.
Instructions(pool_ids, stakers, deposit_ids, amounts, cooldowns) ==
    \/ \E c \in Creators, id \in pool_ids, a \in amounts, cd \in cooldowns :
           create_pool(c, id, a, cd) /\ staking_frame
    \/ \E s \in Users, pk \in Creators \X pool_ids, a \in amounts, v \in VaultArgs :
           fund_pool(s, pk, a, v) /\ staking_frame
    \/ \E s \in Users, pk \in Creators \X pool_ids :
           enable_emergency_mode(s, pk) /\ staking_frame
    \/ \E s \in Users, pk \in Creators \X pool_ids, cd \in cooldowns :
           change_pool_cooldown(s, pk, cd) /\ staking_frame
    \/ \E s \in stakers, pk \in Creators \X pool_ids, id \in deposit_ids, a \in amounts,
          v \in VaultArgs : stake(s, pk, id, a, v) /\ staking_frame
    \/ \E s \in stakers, o \in stakers, pk \in Creators \X pool_ids, id \in deposit_ids :
           activate_cooldown(s, o, pk, id) /\ staking_frame
    \/ \E s \in stakers, o \in stakers, pk \in Creators \X pool_ids, id \in deposit_ids :
           unstake(s, o, pk, id) /\ staking_frame
    \/ \E s \in stakers, o \in stakers, pk \in Creators \X pool_ids, id \in deposit_ids :
           unstake_emergency(s, o, pk, id) /\ staking_frame
    \/ \E s \in Users, pk \in Creators \X pool_ids :
           withdraw_rewards_emergency(s, pk) /\ staking_frame

Next == Instructions(PoolIds, Stakers, DepositIds, Amounts, Cooldowns) \/ Tick

Spec == Init /\ [][Next]_vars

\* Two pools of one creator and one staker with a positive deposit in each, the clock
\* standing still.
NextPools == Instructions(TwoPoolIds, {"bob"}, DepositIds, Amounts \ {0}, {0})

SpecPools == Init /\ [][NextPools]_vars

\* One pool whose creator holds enough to fund rewards that make
\* tokens_deposited * current_rewards exceed the u64 range, the clock standing
\* still.
InitFunded == InitWith(2 * InitBalance, InitBalance)

NextFunded == Instructions(PoolIds, Stakers, DepositIds, Amounts, {0})

SpecFunded == InitFunded /\ [][NextFunded]_vars

\* Two funded pools of one creator and two stakers who stake one token in
\* them, into the pool's own vault, and leave through unstake or, once the
\* creator has enabled emergency mode, through unstake_emergency; the clock
\* standing still.
NextDisjoint ==
    \/ \E c \in Creators, id \in TwoPoolIds : create_pool(c, id, 1, 0) /\ staking_frame
    \/ \E c \in Creators, pk \in Creators \X TwoPoolIds :
           enable_emergency_mode(c, pk) /\ staking_frame
    \/ \E s \in Stakers, pk \in Creators \X TwoPoolIds, id \in DepositIds :
           stake(s, pk, id, 1, "vault") /\ staking_frame
    \/ \E s \in Stakers, o \in Stakers, pk \in Creators \X TwoPoolIds, id \in DepositIds :
           activate_cooldown(s, o, pk, id) /\ staking_frame
    \/ \E s \in Stakers, o \in Stakers, pk \in Creators \X TwoPoolIds, id \in DepositIds :
           unstake(s, o, pk, id) /\ staking_frame
    \/ \E s \in Stakers, o \in Stakers, pk \in Creators \X TwoPoolIds, id \in DepositIds :
           unstake_emergency(s, o, pk, id) /\ staking_frame

SpecDisjoint == InitFunded /\ [][NextDisjoint]_vars

\* One pool whose every instruction is handed the pool's own vault as
\* pool_vault, the clock standing still.
NextOwnVault ==
    \/ \E c \in Creators, id \in PoolIds, a \in Amounts :
           create_pool(c, id, a, 0) /\ staking_frame
    \/ \E s \in Users, pk \in Creators \X PoolIds, a \in Amounts :
           fund_pool(s, pk, a, "vault") /\ staking_frame
    \/ \E s \in Users, pk \in Creators \X PoolIds :
           enable_emergency_mode(s, pk) /\ staking_frame
    \/ \E s \in Users, pk \in Creators \X PoolIds :
           change_pool_cooldown(s, pk, 0) /\ staking_frame
    \/ \E s \in Stakers, pk \in Creators \X PoolIds, id \in DepositIds, a \in Amounts :
           stake(s, pk, id, a, "vault") /\ staking_frame
    \/ \E s \in Stakers, o \in Stakers, pk \in Creators \X PoolIds, id \in DepositIds :
           activate_cooldown(s, o, pk, id) /\ staking_frame
    \/ \E s \in Stakers, o \in Stakers, pk \in Creators \X PoolIds, id \in DepositIds :
           unstake(s, o, pk, id) /\ staking_frame
    \/ \E s \in Stakers, o \in Stakers, pk \in Creators \X PoolIds, id \in DepositIds :
           unstake_emergency(s, o, pk, id) /\ staking_frame
    \/ \E s \in Users, pk \in Creators \X PoolIds :
           withdraw_rewards_emergency(s, pk) /\ staking_frame

SpecOwnVault == InitFunded /\ [][NextOwnVault]_vars

\* One pool and one staker who may hold two deposits in it, the clock standing
\* still.
NextDeposits == Instructions(PoolIds, {"bob"}, TwoDepositIds, Amounts, {0})

SpecDeposits == Init /\ [][NextDeposits]_vars

\* One pool, deposits of one token, the cooldown and the clock both moving.
NextCooldown == Instructions(PoolIds, Stakers, DepositIds, {1}, Cooldowns) \/ Tick

SpecCooldown == Init /\ [][NextCooldown]_vars

\* =================================================================== multisig
\* An instruction of the multisig program touches no account of another
\* program and does not move the clock.
multisig_frame == UNCHANGED <<staking_vars, presale_vars, vesting_vars, now>>

\* `unique_signers.sort(); unique_signers.dedup(); unique_signers.len()`
unique_signers_len(signers) == Cardinality({signers[i] : i \in DOMAIN signers})

\* `vault.signers.contains(key)`
signers_contains(signers, key) == \E i \in DOMAIN signers : signers[i] = key

\* `vault.signers.iter().position(|&s| s == key)`: the first index of key.
signers_position(signers, key) ==
    CHOOSE i \in DOMAIN signers :
        signers[i] = key /\ \A j \in DOMAIN signers : signers[j] = key => i <= j

\* `proposal.approvals.iter().filter(|&&approved| approved).count()`
approval_count(approvals) == Cardinality({i \in DOMAIN approvals : approvals[i]})

\* ------------------------------------------------------------ create_vault
create_vault_error(signers, threshold) ==
    IF Len(signers) = 0 THEN "EmptySigners"
    ELSE IF ~(Len(signers) <= MaxSigners) THEN "TooManySigners"
    ELSE IF ~(threshold > 0) THEN "InvalidThreshold"
    ELSE IF ~(threshold <= Len(signers)) THEN "ThresholdTooHigh"
    ELSE IF unique_signers_len(signers) # Len(signers) THEN "DuplicateSigners"
    ELSE "Ok"

create_vault_record(signers, threshold) ==
    [signers |-> signers, threshold |-> threshold]

create_vault(creator, vault_id, signers, threshold) ==
    LET vk == <<creator, vault_id>> IN
    /\ vk \notin DOMAIN vaults
    /\ multisig_frame
    /\ IF create_vault_error(signers, threshold) = "Ok"
       THEN /\ vaults' = vaults @@ (vk :> create_vault_record(signers, threshold))
            /\ vault_funds' = vault_funds @@ (vk :> [a \in Assets |-> 0])
            /\ last' = Outcome("create_vault", creator, vk, 0)
            /\ UNCHANGED <<proposals, wallet>>
       ELSE Fail

\* A transfer of SOL (system program) or of tokens (token program) from a key
\* to the vault_sol PDA or to the vault's token account: how a vault is funded.
fund_vault(key, vk, asset, amount) ==
    /\ vk \in DOMAIN vaults
    /\ amount > 0
    /\ multisig_frame
    /\ IF transfer_checked(wallet[key][asset], amount) = "Ok"
       THEN /\ wallet' = [wallet EXCEPT ![key][asset] = @ - amount]
            /\ vault_funds' = [vault_funds EXCEPT ![vk][asset] = @ + amount]
            /\ last' = Outcome("fund_vault", key, vk, 0)
            /\ UNCHANGED <<vaults, proposals>>
       ELSE Fail

\* -------------------------------------------------------- propose_transfer
propose_transfer_error(vault, proposer) ==
    IF ~signers_contains(vault.signers, proposer) THEN "InvalidSigner" ELSE "Ok"

propose_transfer_record(vault, proposer, recipient, amount, token_mint) ==
    [proposer |-> proposer,
     recipient |-> recipient,
     amount |-> amount,
     token_mint |-> token_mint,
     executed |-> FALSE,
     approvals |-> [i \in DOMAIN vault.signers |->
                       i = signers_position(vault.signers, proposer)]]

propose_transfer(proposer, vk, proposal_id, recipient, amount, token_mint) ==
    LET pk == <<vk, proposal_id>> IN
    /\ vk \in DOMAIN vaults
    /\ pk \notin DOMAIN proposals
    /\ multisig_frame
    /\ IF propose_transfer_error(vaults[vk], proposer) = "Ok"
       THEN /\ proposals' = proposals @@
                (pk :> propose_transfer_record(vaults[vk], proposer, recipient, amount,
                                               token_mint))
            /\ last' = Outcome("propose_transfer", proposer, vk, proposal_id)
            /\ UNCHANGED <<vaults, vault_funds, wallet>>
       ELSE Fail

\* -------------------------------------------------------- approve_transfer
\* Mutant: an approval already given is not checked.
approve_transfer_error_again(vault, proposal, approver) ==
    IF ~(~proposal.executed) THEN "AlreadyExecuted"
    ELSE IF ~signers_contains(vault.signers, approver) THEN "InvalidSigner"
    ELSE "Ok"

approve_transfer_error(vault, proposal, approver) ==
    IF ~(~proposal.executed) THEN "AlreadyExecuted"
    ELSE IF ~signers_contains(vault.signers, approver) THEN "InvalidSigner"
    ELSE IF ~(~proposal.approvals[signers_position(vault.signers, approver)])
         THEN "AlreadyApproved"
    ELSE "Ok"

approve_transfer_record(vault, proposal, approver) ==
    [proposal EXCEPT !.approvals[signers_position(vault.signers, approver)] = TRUE]

approve_transfer(approver, vk, proposal_id) ==
    LET pk == <<vk, proposal_id>> IN
    /\ pk \in DOMAIN proposals
    /\ multisig_frame
    /\ IF approve_transfer_error(vaults[vk], proposals[pk], approver) = "Ok"
       THEN /\ proposals' = [proposals EXCEPT
                                ![pk] = approve_transfer_record(vaults[vk], @, approver)]
            /\ last' = Outcome("approve_transfer", approver, vk, proposal_id)
            /\ UNCHANGED <<vaults, vault_funds, wallet>>
       ELSE Fail

\* ---------------------------------------------------- execute_sol_transfer
\* Mutant: the threshold is compared with the number of signers of the vault.
execute_threshold_met_any(vault, proposal) ==
    Len(proposal.approvals) >= vault.threshold

\* `approval_count >= vault.threshold as usize`
execute_threshold_met(vault, proposal) ==
    approval_count(proposal.approvals) >= vault.threshold

\* The proposal after a successful execution.
execute_record(proposal) == [proposal EXCEPT !.executed = TRUE]

\* Mutant: the executed check is missing.
execute_sol_transfer_error_replay(vault, proposal, vault_lamports) ==
    IF ~(proposal.token_mint = NoMint) THEN "TokenMintMismatch"
    ELSE IF ~execute_threshold_met(vault, proposal) THEN "InsufficientApprovals"
    ELSE transfer_checked(vault_lamports, proposal.amount)

execute_sol_transfer_error(vault, proposal, vault_lamports) ==
    IF ~(~proposal.executed) THEN "AlreadyExecuted"
    ELSE IF ~(proposal.token_mint = NoMint) THEN "TokenMintMismatch"
    ELSE IF ~execute_threshold_met(vault, proposal) THEN "InsufficientApprovals"
    ELSE transfer_checked(vault_lamports, proposal.amount)

\* The recipient account carries no constraint: whoever submits the
\* instruction passes the account that receives the lamports.
execute_sol_transfer(vk, proposal_id, recipient) ==
    LET pk == <<vk, proposal_id>> IN
    /\ pk \in DOMAIN proposals
    /\ multisig_frame
    /\ IF execute_sol_transfer_error(vaults[vk], proposals[pk], vault_funds[vk]["sol"]) = "Ok"
       THEN /\ proposals' = [proposals EXCEPT ![pk] = execute_record(@)]
            /\ vault_funds' = [vault_funds EXCEPT ![vk]["sol"] = @ - proposals[pk].amount]
            /\ wallet' = [wallet EXCEPT ![recipient]["sol"] = @ + proposals[pk].amount]
            /\ last' = Outcome("execute_sol_transfer", "none", vk, proposal_id)
            /\ UNCHANGED vaults
       ELSE Fail

\* ---------------------------------------------------- execute_spl_transfer
\* vault_token_account is the vault's own token account of "mint" ("vault") or
\* a token account the vault PDA does not own ("other").
execute_spl_transfer_error(vault, proposal, mint, vault_token_account, vault_tokens) ==
    IF ~(~proposal.executed) THEN "AlreadyExecuted"
    ELSE IF proposal.token_mint = NoMint THEN "TokenMintMismatch"
    ELSE IF ~(mint = proposal.token_mint) THEN "TokenMintMismatch"
    ELSE IF ~execute_threshold_met(vault, proposal) THEN "InsufficientApprovals"
    ELSE IF ~(vault_token_account = "vault") THEN "InvalidTokenAccount"
    ELSE IF mint # "mint" THEN transfer_checked(0, proposal.amount)
    ELSE transfer_checked(vault_tokens, proposal.amount)

\* The recipient_token_account carries no constraint either.
execute_spl_transfer(vk, proposal_id, mint, vault_token_account, recipient) ==
    LET pk == <<vk, proposal_id>> IN
    /\ pk \in DOMAIN proposals
    /\ multisig_frame
    /\ IF execute_spl_transfer_error(vaults[vk], proposals[pk], mint, vault_token_account,
                                     vault_funds[vk]["token"]) = "Ok"
       THEN /\ proposals' = [proposals EXCEPT ![pk] = execute_record(@)]
            /\ IF mint = "mint"
               THEN /\ vault_funds' = [vault_funds EXCEPT
                                          ![vk]["token"] = @ - proposals[pk].amount]
                    /\ wallet' = [wallet EXCEPT
                                     ![recipient]["token"] = @ + proposals[pk].amount]
               ELSE UNCHANGED <<vault_funds, wallet>>
            /\ last' = Outcome("execute_spl_transfer", "none", vk, proposal_id)
            /\ UNCHANGED vaults
       ELSE Fail

\* The instructions of the multisig program and the funding of a vault.
NextMultisig ==
    \/ \E c \in {"alice"}, id \in VaultIds, sg \in SignerLists, t \in Thresholds :
           create_vault(c, id, sg, t)
    \/ \E k \in Keys, vk \in {"alice"} \X VaultIds, a \in Assets, n \in Amounts :
           fund_vault(k, vk, a, n)
    \/ \E k \in Keys, vk \in {"alice"} \X VaultIds, id \in ProposalIds, r \in {"carol"},
          n \in Amounts, m \in {NoMint} \cup Mints :
           propose_transfer(k, vk, id, r, n, m)
    \/ \E k \in Keys, vk \in {"alice"} \X VaultIds, id \in ProposalIds :
           approve_transfer(k, vk, id)
    \/ \E vk \in {"alice"} \X VaultIds, id \in ProposalIds, r \in Keys :
           execute_sol_transfer(vk, id, r)
    \/ \E vk \in {"alice"} \X VaultIds, id \in ProposalIds, m \in Mints, v \in VaultArgs,
          r \in Keys : execute_spl_transfer(vk, id, m, v, r)

SpecMultisig == Init /\ [][NextMultisig]_vars

\* ======================================================================== ico
\* An instruction of the ico program touches no account of another program and
\* does not move the clock.
presale_frame == UNCHANGED <<staking_vars, multisig_vars, vesting_vars, now>>

\* How `last` names a presale: it is addressed by its pool_id alone.
PresaleKey(pool_id) == <<"presale", pool_id>>

\* Option<u64>::None, a value no u64 equals.
None == -1

\* `a.checked_add(b)`, `a.checked_mul(b)`, `a.checked_pow(b)`: None on overflow.
checked_add(a, b) == IF a + b > U64Max THEN None ELSE a + b
checked_mul(a, b) == IF a * b > U64Max THEN None ELSE a * b
checked_pow(a, b) == IF a ^ b > U64Max THEN None ELSE a ^ b

\* ----------------------------------------------------- create_presale_pool
create_presale_pool_error(soft_cap, hard_cap, min_contribution, max_contribution, start_timestamp, end_timestamp, token_price_lamports, tokens_for_sale, authority_tokens) ==
    IF ~(soft_cap < hard_cap) THEN "SoftcapHigherThanHardcap"
    ELSE IF ~(min_contribution <= max_contribution)
         THEN "MaxContributionLessThanMinContribution"
    ELSE IF ~(start_timestamp < end_timestamp) THEN "EndTimestampBeforeStart"
    ELSE IF ~(token_price_lamports > 0) THEN "InvalidPrice"
    ELSE IF tokens_for_sale > 0 THEN transfer_checked(authority_tokens, tokens_for_sale)
    ELSE "Ok"

create_presale_pool_record(authority, funds_receiver, soft_cap, hard_cap, min_contribution, max_contribution, start_timestamp, end_timestamp, token_price_lamports) ==
    [authority |-> authority,
     funds_receiver |-> funds_receiver,
     soft_cap |-> soft_cap,
     hard_cap |-> hard_cap,
     min_contribution |-> min_contribution,
     max_contribution |-> max_contribution,
     start_timestamp |-> start_timestamp,
     end_timestamp |-> end_timestamp,
     total_contributions |-> 0,
     token_price_lamports |-> token_price_lamports]

create_presale_pool(authority, funds_receiver, pool_id, token_price_lamports, soft_cap, hard_cap, min_contribution, max_contribution, start_timestamp, end_timestamp, tokens_for_sale) ==
    /\ pool_id \notin DOMAIN presales
    /\ presale_frame
    /\ IF create_presale_pool_error(soft_cap, hard_cap, min_contribution, max_contribution,
                                    start_timestamp, end_timestamp, token_price_lamports,
                                    tokens_for_sale, holdings[authority].token) = "Ok"
       THEN /\ presales' = presales @@
                (pool_id :> create_presale_pool_record(authority, funds_receiver, soft_cap,
                                hard_cap, min_contribution, max_contribution,
                                start_timestamp, end_timestamp, token_price_lamports))
            /\ presale_lamports' = presale_lamports @@ (pool_id :> RentMinimum)
            /\ presale_vault' = presale_vault @@ (pool_id :> tokens_for_sale)
            /\ holdings' = [holdings EXCEPT ![authority].token = @ - tokens_for_sale]
            /\ last' = Outcome("create_presale_pool", authority, PresaleKey(pool_id), 0)
            /\ UNCHANGED profiles
       ELSE Fail

\* -------------------------------------------------------------- contribute
\* The profile account as the handler finds it: `init_if_needed` hands a
\* zeroed account to the first contribution.
contribute_profile(contributor, pool_id) ==
    IF <<contributor, pool_id>> \in DOMAIN profiles
    THEN profiles[<<contributor, pool_id>>]
    ELSE [contributed |-> 0, claimed |-> FALSE]

\* Mutant: the hard cap is not checked.
contribute_error_no_hard_cap(presale, profile, amount, clock, contributor_lamports) ==
    IF ~(clock >= presale.start_timestamp) THEN "SaleNotStartedYet"
    ELSE IF ~(clock <= presale.end_timestamp) THEN "SaleEnded"
    ELSE IF ~(amount >= presale.min_contribution) THEN "ContributionBelowMinimum"
    ELSE IF checked_add(profile.contributed, amount) = None THEN "MathOverflow"
    ELSE IF ~(checked_add(profile.contributed, amount) <= presale.max_contribution)
         THEN "ContributionAboveMaximum"
    ELSE IF checked_add(presale.total_contributions, amount) = None THEN "MathOverflow"
    ELSE transfer_checked(contributor_lamports, amount)

contribute_error(presale, profile, amount, clock, contributor_lamports) ==
    IF ~(clock >= presale.start_timestamp) THEN "SaleNotStartedYet"
    ELSE IF ~(clock <= presale.end_timestamp) THEN "SaleEnded"
    ELSE IF ~(amount >= presale.min_contribution) THEN "ContributionBelowMinimum"
    ELSE IF checked_add(profile.contributed, amount) = None THEN "MathOverflow"
    ELSE IF ~(checked_add(profile.contributed, amount) <= presale.max_contribution)
         THEN "ContributionAboveMaximum"
    ELSE IF checked_add(presale.total_contributions, amount) = None THEN "MathOverflow"
    ELSE IF ~(checked_add(presale.total_contributions, amount) <= presale.hard_cap)
         THEN "HardcapExceeded"
    ELSE transfer_checked(contributor_lamports, amount)

contribute_profile_record(profile, amount) ==
    [contributed |-> checked_add(profile.contributed, amount),
     claimed |-> IF profile.contributed = 0 THEN FALSE ELSE profile.claimed]

contribute_presale_record(presale, amount) ==
    [presale EXCEPT !.total_contributions = checked_add(@, amount)]

contribute(contributor, pool_id, amount) ==
    /\ pool_id \in DOMAIN presales
    /\ presale_frame
    /\ LET profile == contribute_profile(contributor, pool_id)
       IN  IF contribute_error(presales[pool_id], profile, amount, now,
                               holdings[contributor].sol) = "Ok"
           THEN /\ profiles' = [k \in DOMAIN profiles \cup {<<contributor, pool_id>>} |->
                                   IF k = <<contributor, pool_id>>
                                   THEN contribute_profile_record(profile, amount)
                                   ELSE profiles[k]]
                /\ presales' = [presales EXCEPT ![pool_id] = contribute_presale_record(@, amount)]
                /\ holdings' = [holdings EXCEPT ![contributor].sol = @ - amount]
                /\ presale_lamports' = [presale_lamports EXCEPT ![pool_id] = @ + amount]
                /\ last' = Outcome("contribute", contributor, PresaleKey(pool_id), 0)
                /\ UNCHANGED presale_vault
           ELSE Fail

\* ------------------------------------------------------------------- claim
\* `contributed * 10^decimals / price`: None when a checked operation fails.
claim_tokens_to_send(contributed, price) ==
    IF checked_pow(10, MintDecimals) = None THEN None
    ELSE IF checked_mul(contributed, checked_pow(10, MintDecimals)) = None THEN None
    ELSE IF price = 0 THEN None
    ELSE checked_mul(contributed, checked_pow(10, MintDecimals)) \div price

\* The soft cap was missed: the contribution is refunded.
claim_refunds(presale) == presale.total_contributions < presale.soft_cap

\* Mutant: a claimed profile is not turned away.
claim_error_reclaim(presale, profile, lamports, vault_tokens) ==
    IF ~(profile.contributed > 0) THEN "NothingToClaim"
    ELSE IF claim_refunds(presale)
         THEN IF lamports - profile.contributed < 0 THEN "Panic" ELSE "Ok"
    ELSE IF ~(presale.token_price_lamports > 0) THEN "InvalidPrice"
    ELSE IF claim_tokens_to_send(profile.contributed, presale.token_price_lamports) = None
         THEN "MathOverflow"
    ELSE IF ~(claim_tokens_to_send(profile.contributed, presale.token_price_lamports) > 0)
         THEN "NothingToClaim"
    ELSE IF ~(vault_tokens >=
                 claim_tokens_to_send(profile.contributed, presale.token_price_lamports))
         THEN "NotEnoughTokensInVault"
    ELSE "Ok"

claim_error(presale, profile, lamports, vault_tokens) ==
    IF ~(~profile.claimed) THEN "AlreadyClaimed"
    ELSE IF ~(profile.contributed > 0) THEN "NothingToClaim"
    ELSE IF claim_refunds(presale)
         THEN IF lamports - profile.contributed < 0 THEN "Panic" ELSE "Ok"
    ELSE IF ~(presale.token_price_lamports > 0) THEN "InvalidPrice"
    ELSE IF claim_tokens_to_send(profile.contributed, presale.token_price_lamports) = None
         THEN "MathOverflow"
    ELSE IF ~(claim_tokens_to_send(profile.contributed, presale.token_price_lamports) > 0)
         THEN "NothingToClaim"
    ELSE IF ~(vault_tokens >=
                 claim_tokens_to_send(profile.contributed, presale.token_price_lamports))
         THEN "NotEnoughTokensInVault"
    ELSE "Ok"

claim_profile_record(profile) == [profile EXCEPT !.claimed = TRUE]

claim(contributor, pool_id) ==
    LET fk == <<contributor, pool_id>> IN
    /\ fk \in DOMAIN profiles
    /\ presale_frame
    /\ LET presale == presales[pool_id]
           profile == profiles[fk]
       IN  IF claim_error(presale, profile, presale_lamports[pool_id],
                          presale_vault[pool_id]) = "Ok"
           THEN /\ profiles' = [profiles EXCEPT ![fk] = claim_profile_record(@)]
                /\ IF claim_refunds(presale)
                   THEN /\ presale_lamports' =
                               [presale_lamports EXCEPT ![pool_id] = @ - profile.contributed]
                        /\ holdings' =
                               [holdings EXCEPT ![contributor].sol = @ + profile.contributed]
                        /\ UNCHANGED presale_vault
                   ELSE LET tokens_to_send ==
                                claim_tokens_to_send(profile.contributed,
                                                     presale.token_price_lamports)
                        IN  /\ presale_vault' =
                                   [presale_vault EXCEPT ![pool_id] = @ - tokens_to_send]
                            /\ holdings' =
                                   [holdings EXCEPT ![contributor].token = @ + tokens_to_send]
                            /\ UNCHANGED presale_lamports
                /\ last' = Outcome("claim", contributor, PresaleKey(pool_id), 0)
                /\ UNCHANGED presales
           ELSE Fail

\* ---------------------------------------------------------- admin_withdraw
\* `amount.min(presale.get_lamports())`
admin_withdraw_available(amount, lamports) == IF amount < lamports THEN amount ELSE lamports

\* Mutant: the soft cap is not required.
admin_withdraw_error_no_soft_cap(presale, signer, funds_receiver, amount, lamports) ==
    IF presale.authority # signer THEN "ConstraintHasOne"
    ELSE IF presale.funds_receiver # funds_receiver THEN "ConstraintHasOne"
    ELSE IF ~(admin_withdraw_available(amount, lamports) > RentMinimum)
         THEN "NothingToWithdraw"
    ELSE "Ok"

\* has_one = authority and has_one = funds_receiver are checked before the
\* handler body runs.
admin_withdraw_error(presale, signer, funds_receiver, amount, lamports) ==
    IF presale.authority # signer THEN "ConstraintHasOne"
    ELSE IF presale.funds_receiver # funds_receiver THEN "ConstraintHasOne"
    ELSE IF ~(presale.total_contributions >= presale.soft_cap) THEN "SoftcapNotReached"
    ELSE IF ~(admin_withdraw_available(amount, lamports) > RentMinimum)
         THEN "NothingToWithdraw"
    ELSE "Ok"

admin_withdraw_amount(amount, lamports) ==
    admin_withdraw_available(amount, lamports) - RentMinimum

admin_withdraw(signer, pool_id, amount, funds_receiver) ==
    /\ pool_id \in DOMAIN presales
    /\ presale_frame
    /\ LET presale == presales[pool_id]
           lamports == presale_lamports[pool_id]
       IN  IF admin_withdraw_error(presale, signer, funds_receiver, amount, lamports) = "Ok"
           THEN /\ presale_lamports' =
                       [presale_lamports EXCEPT
                           ![pool_id] = @ - admin_withdraw_amount(amount, lamports)]
                /\ holdings' =
                       [holdings EXCEPT
                           ![funds_receiver].sol =
                               @ + admin_withdraw_amount(amount, lamports)]
                /\ last' = Outcome("admin_withdraw", signer, PresaleKey(pool_id), 0)
                /\ UNCHANGED <<presales, profiles, presale_vault>>
           ELSE Fail

\* ------------------------------------------------ emergency_withdraw_token
\* `amount.min(presale_vault.amount)`
emergency_withdraw_token_amount(amount, vault_tokens) ==
    IF amount < vault_tokens THEN amount ELSE vault_tokens

emergency_withdraw_token_error(presale, signer, amount, vault_tokens, clock) ==
    IF presale.authority # signer THEN "ConstraintHasOne"
    ELSE IF ~(clock < presale.start_timestamp) THEN "EmergencyWithdrawOnlyBeforeStart"
    ELSE IF ~(emergency_withdraw_token_amount(amount, vault_tokens) > 0)
         THEN "NothingToWithdraw"
    ELSE "Ok"

emergency_withdraw_token(signer, pool_id, amount, receiver) ==
    /\ pool_id \in DOMAIN presales
    /\ presale_frame
    /\ LET vault_tokens == presale_vault[pool_id]
       IN  IF emergency_withdraw_token_error(presales[pool_id], signer, amount, vault_tokens,
                                             now) = "Ok"
           THEN /\ presale_vault' =
                       [presale_vault EXCEPT
                           ![pool_id] = @ - emergency_withdraw_token_amount(amount, vault_tokens)]
                /\ holdings' =
                       [holdings EXCEPT
                           ![receiver].token =
                               @ + emergency_withdraw_token_amount(amount, vault_tokens)]
                /\ last' = Outcome("emergency_withdraw_token", signer, PresaleKey(pool_id), 0)
                /\ UNCHANGED <<presales, profiles, presale_lamports>>
           ELSE Fail

\* The instructions of the ico program.
NextPresale ==
    \/ \E a \in Authorities, id \in PresaleIds, p \in Prices, sc \in SoftCaps, hc \in HardCaps,
          mn \in MinContributions, mx \in MaxContributions, st \in StartTimestamps,
          en \in EndTimestamps, t \in TokensForSale :
           create_presale_pool(a, a, id, p, sc, hc, mn, mx, st, en, t)
    \/ \E c \in Contributors, id \in PresaleIds, n \in 0..U64Max : contribute(c, id, n)
    \/ \E c \in Contributors, id \in PresaleIds : claim(c, id)
    \/ \E k \in Keys, id \in PresaleIds, n \in Amounts \cup {U64Max}, r \in Keys :
           admin_withdraw(k, id, n, r)
    \/ \E k \in Keys, id \in PresaleIds, n \in Amounts, r \in Authorities :
           emergency_withdraw_token(k, id, n, r)
    \/ Tick

SpecPresale == Init /\ [][NextPresale]_vars


\* ==================================================================== vesting
\* An instruction of the vesting program touches no account of another program
\* and does not move the clock.
vesting_frame == UNCHANGED <<staking_vars, multisig_vars, presale_vars, now>>

\* How `last` names a schedule: its seeds are the creator and the beneficiary.
ScheduleKey(sk) == <<"schedule", sk>>

\* u64 `checked_mul`, `checked_add`, and i64 `checked_add`, at the width of the
\* vesting program.
vesting_checked_mul(a, b) == IF a * b > VestingU64Max THEN None ELSE a * b
vesting_checked_add(a, b) == IF a + b > VestingU64Max THEN None ELSE a + b
i64_checked_add(a, b) == IF a + b > VestingI64Max THEN None ELSE a + b

\* ---------------------------------------------------------- create_vesting
create_vesting_error(clock, cliff_duration, interval_duration, unlock_percentage, total_amount, creator_tokens) ==
    IF ~(cliff_duration > 0) THEN "InvalidCliffDuration"
    ELSE IF ~(interval_duration > 0) THEN "InvalidIntervalDuration"
    ELSE IF ~(unlock_percentage > 0 /\ unlock_percentage <= 100)
         THEN "InvalidUnlockPercentage"
    ELSE IF ~(total_amount > 0) THEN "InvalidAmount"
    ELSE IF i64_checked_add(clock, cliff_duration) = None THEN "MathOverflow"
    ELSE transfer_checked(creator_tokens, total_amount)

create_vesting_record(creator, beneficiary, clock, cliff_duration, interval_duration, unlock_percentage, total_amount) ==
    [creator |-> creator,
     beneficiary |-> beneficiary,
     total_amount |-> total_amount,
     unlocked_amount |-> 0,
     cliff_end_timestamp |-> i64_checked_add(clock, cliff_duration),
     interval_duration |-> interval_duration,
     unlock_percentage |-> unlock_percentage,
     last_unlock_timestamp |-> i64_checked_add(clock, cliff_duration),
     created_at |-> clock]

create_vesting(creator, beneficiary, cliff_duration, interval_duration, unlock_percentage, total_amount) ==
    LET sk == <<creator, beneficiary>> IN
    /\ sk \notin DOMAIN schedules
    /\ vesting_frame
    /\ IF create_vesting_error(now, cliff_duration, interval_duration, unlock_percentage,
                               total_amount, token_accounts[creator]) = "Ok"
       THEN /\ schedules' = schedules @@
                (sk :> create_vesting_record(creator, beneficiary, now, cliff_duration,
                                             interval_duration, unlock_percentage,
                                             total_amount))
            /\ schedule_vault' = schedule_vault @@ (sk :> total_amount)
            /\ token_accounts' = [token_accounts EXCEPT ![creator] = @ - total_amount]
            /\ last' = Outcome("create_vesting", creator, ScheduleKey(sk), 0)
       ELSE Fail

\* ------------------------------------------------------------------ unlock
\* `time_since_cliff.checked_div(interval_duration)`, `.max(0) as u64`
unlock_total_intervals_passed(schedule, clock) ==
    IF schedule.interval_duration = 0 THEN None
    ELSE LET passed == (clock - schedule.cliff_end_timestamp) \div schedule.interval_duration
         IN  IF passed < 0 THEN 0 ELSE passed

\* `total_amount.checked_mul(percentage_per_interval)?.checked_div(100)?`
unlock_amount_per_interval(schedule) ==
    IF vesting_checked_mul(schedule.total_amount, schedule.unlock_percentage) = None THEN None
    ELSE vesting_checked_mul(schedule.total_amount, schedule.unlock_percentage) \div 100

\* `unlocked_amount.checked_div(amount_per_interval).unwrap_or(0)`; None when
\* amount_per_interval overflows.
unlock_intervals_unlocked_so_far(schedule) ==
    IF schedule.unlocked_amount = 0 THEN 0
    ELSE IF unlock_amount_per_interval(schedule) = None THEN None
    ELSE IF unlock_amount_per_interval(schedule) = 0 THEN 0
    ELSE schedule.unlocked_amount \div unlock_amount_per_interval(schedule)

\* `amount_per_interval.min(total_amount.checked_sub(unlocked_amount)?)`
unlock_amount_to_unlock(schedule) ==
    LET remaining == schedule.total_amount - schedule.unlocked_amount
    IN  IF unlock_amount_per_interval(schedule) = None \/ remaining < 0 THEN None
        ELSE IF unlock_amount_per_interval(schedule) < remaining
             THEN unlock_amount_per_interval(schedule)
             ELSE remaining

\* Mutant: only the first unlock waits for an interval.
unlock_interval_passed_first_only(schedule, clock) ==
    IF schedule.unlocked_amount = 0
    THEN unlock_total_intervals_passed(schedule, clock) >= 1
    ELSE TRUE

\* The interval check: since the cliff end for the first unlock, since the
\* last unlock afterwards.
unlock_interval_passed(schedule, clock) ==
    IF schedule.unlocked_amount = 0
    THEN unlock_total_intervals_passed(schedule, clock) >= 1
    ELSE clock - schedule.last_unlock_timestamp >= schedule.interval_duration

\* has_one = beneficiary, with the beneficiary a signer, is checked before the
\* handler body runs.
unlock_error(schedule, signer, clock, vault_tokens) ==
    IF schedule.beneficiary # signer THEN "ConstraintHasOne"
    ELSE IF ~(clock >= schedule.cliff_end_timestamp) THEN "CliffNotPassed"
    ELSE IF unlock_total_intervals_passed(schedule, clock) = None THEN "MathOverflow"
    ELSE IF ~unlock_interval_passed(schedule, clock) THEN "IntervalNotPassed"
    ELSE IF unlock_intervals_unlocked_so_far(schedule) = None THEN "MathOverflow"
    ELSE IF unlock_total_intervals_passed(schedule, clock)
                - unlock_intervals_unlocked_so_far(schedule) < 0 THEN "MathOverflow"
    ELSE IF ~(unlock_total_intervals_passed(schedule, clock)
                - unlock_intervals_unlocked_so_far(schedule) > 0) THEN "NothingToUnlock"
    ELSE IF unlock_amount_to_unlock(schedule) = None THEN "MathOverflow"
    ELSE IF ~(unlock_amount_to_unlock(schedule) > 0) THEN "NothingToUnlock"
    ELSE IF ~(vault_tokens >= unlock_amount_to_unlock(schedule))
         THEN "InsufficientVaultBalance"
    ELSE IF transfer_checked(vault_tokens, unlock_amount_to_unlock(schedule)) # "Ok"
         THEN transfer_checked(vault_tokens, unlock_amount_to_unlock(schedule))
    ELSE IF vesting_checked_add(schedule.unlocked_amount, unlock_amount_to_unlock(schedule)) = None
         THEN "MathOverflow"
    ELSE "Ok"

\* Mutant: unlocked_amount is not advanced.
unlock_record_stale(schedule, clock) ==
    [schedule EXCEPT !.last_unlock_timestamp = clock]

unlock_record(schedule, clock) ==
    [schedule EXCEPT
        !.unlocked_amount = vesting_checked_add(@, unlock_amount_to_unlock(schedule)),
        !.last_unlock_timestamp = clock]

unlock(signer, sk) ==
    /\ sk \in DOMAIN schedules
    /\ vesting_frame
    /\ LET schedule == schedules[sk]
       IN  IF unlock_error(schedule, signer, now, schedule_vault[sk]) = "Ok"
           THEN /\ schedule_vault' =
                       [schedule_vault EXCEPT ![sk] = @ - unlock_amount_to_unlock(schedule)]
                /\ token_accounts' =
                       [token_accounts EXCEPT ![signer] = @ + unlock_amount_to_unlock(schedule)]
                /\ schedules' = [schedules EXCEPT ![sk] = unlock_record(@, now)]
                /\ last' = Outcome("unlock", signer, ScheduleKey(sk), 0)
           ELSE Fail

\* The cluster clock of the vesting runs: it advances far enough for every
\* interval of a schedule to pass.
TickVesting ==
    /\ now < MaxVestingTime
    /\ now' = now + 1
    /\ last' = Outcome("tick", "none", NoPool, 0)
    /\ UNCHANGED <<staking_vars, multisig_vars, presale_vars, vesting_vars>>

\* The instructions of the vesting program.
NextVesting ==
    \/ \E c \in VestingCreators, b \in Beneficiaries, cd \in CliffDurations,
          id \in IntervalDurations, up \in UnlockPercentages, t \in TotalAmounts :
           create_vesting(c, b, cd, id, up, t)
    \/ \E k \in Keys, sk \in VestingCreators \X Beneficiaries : unlock(k, sk)
    \/ TickVesting

SpecVesting == Init /\ [][NextVesting]_vars

\* ==================================================================== claims
\* The StakingError variants (and no other failure) that the specification
\* calls StateError: the instruction is invalid for the record's current state.
StateErrors ==
    {"EmergencyModeEnabled", "EmergencyModeNotEnabled", "EmergencyModeAlreadyEnabled",
     "DepositAlreadyWithdrawn", "ClaimCooldownNotActive", "ClaimCooldownNotElapsed",
     "CooldownAlreadyActivated"}

RECURSIVE SumDeposited(_)
SumDeposited(keys) ==
    IF keys = {} THEN 0
    ELSE LET dk == CHOOSE k \in keys : TRUE
         IN  deposits[dk].tokens_deposited + SumDeposited(keys \ {dk})

ActiveDeposits == {dk \in DOMAIN deposits : ~deposits[dk].is_withdrawn}
ActiveInPool(pk) == {dk \in ActiveDeposits : dk[2] = pk}
ActiveOfStaker(s) == {dk \in ActiveDeposits : dk[1] = s}

\* What unstake, resp. unstake_emergency, returns for deposit dk in this state.
UnstakeResult(dk) ==
    unstake_error(pools[dk[2]], deposits[dk], staker_stats[dk[1]], pool_vault[dk[2]], now)
EmergencyResult(dk) ==
    unstake_emergency_error(pools[dk[2]], deposits[dk], staker_stats[dk[1]], pool_vault[dk[2]])

\* The deposit the committed instruction `last` acted on.
LastDeposit(l) == <<l.signer, l.pool, l.deposit_id>>

\* The step commits instruction op (a failed instruction is a stuttering step).
Commits(op) == last'.op = op /\ vars' # vars

\* C1: in every reachable state each pool's current_tokens_staked equals the
\* sum of tokens_deposited over that pool's deposits that are not withdrawn.
C1_PoolTotalStaked ==
    \A pk \in DOMAIN pools :
        pools[pk].current_tokens_staked = SumDeposited(ActiveInPool(pk))

\* C1 witness: one deposit of a pool has been withdrawn by unstake while
\* another deposit of the same pool is still staked.
C1_Witness ==
    /\ last.op = "unstake"
    /\ \E d1, d2 \in DOMAIN deposits :
           /\ d1[2] = d2[2]
           /\ deposits[d1].is_withdrawn /\ deposits[d1].tokens_deposited > 0
           /\ ~deposits[d2].is_withdrawn /\ deposits[d2].tokens_deposited > 0
           /\ pools[d2[2]].current_tokens_staked = deposits[d2].tokens_deposited

\* C2: in every reachable state each staker's StakerStats.total_staked equals
\* the sum of tokens_deposited over all of that staker's deposits that are not
\* withdrawn, across every pool.
C2_StakerTotalStaked ==
    \A s \in Stakers : staker_stats[s] = SumDeposited(ActiveOfStaker(s))

\* C2 witness: a staker has withdrawn a deposit from one pool and still holds
\* a deposit in another pool.
C2_Witness ==
    \E d1, d2 \in DOMAIN deposits :
        /\ d1[1] = d2[1] /\ d1[2] # d2[2]
        /\ deposits[d1].is_withdrawn /\ deposits[d1].tokens_deposited > 0
        /\ ~deposits[d2].is_withdrawn /\ deposits[d2].tokens_deposited > 0
        /\ staker_stats[d1[1]] = deposits[d2].tokens_deposited

\* C3: current_rewards stays within 0..u64::MAX, and for every deposit that is
\* not withdrawn the reward unstake computes is at most current_rewards, so
\* `current_rewards -= user_rewards` never underflows.
C3_RewardsNeverNegative ==
    \A pk \in DOMAIN pools :
        /\ pools[pk].current_rewards \in 0..U64Max
        /\ \A dk \in ActiveInPool(pk) :
               pools[pk].current_tokens_staked # 0 =>
                   economy_estimate_rewards(pools[pk].current_tokens_staked,
                       deposits[dk].tokens_deposited, pools[pk].current_rewards)
                     <= pools[pk].current_rewards

\* C3 witness: an unstake has paid a reward and left a smaller, positive
\* current_rewards for a deposit that is still staked.
C3_Witness ==
    /\ last.op = "unstake"
    /\ deposits[LastDeposit(last)].tokens_claimed > 0
    /\ pools[last.pool].current_rewards > 0
    /\ ActiveInPool(last.pool) # {}

\* What a step that commits an unstake does, against the values before it.
C4_Step ==
    Commits("unstake") =>
        LET dk == LastDeposit(last')
            pool == pools[last'.pool]
            amount == deposits[dk].tokens_deposited
            reward == (amount * pool.current_rewards) \div pool.current_tokens_staked
        IN  /\ deposits'[dk].tokens_claimed = reward
            /\ balance'[last'.signer] = balance[last'.signer] + amount + reward
            /\ pools'[last'.pool].current_rewards = pool.current_rewards - reward
            /\ pools'[last'.pool].current_tokens_staked = pool.current_tokens_staked - amount

\* C4: a committed unstake pays floor(tokens_deposited * current_rewards /
\* current_tokens_staked), computed on the values before the instruction and in
\* unbounded arithmetic (neither the product nor the narrowing loses a bit);
\* the staker receives principal plus that reward and the pool counters drop
\* by them.
C4_RewardFormula == [][C4_Step]_vars

\* C4 witness: an unstake has paid a reward whose product tokens_deposited *
\* current_rewards did not fit in u64.
C4_Witness ==
    /\ last.op = "unstake"
    /\ LET dk == LastDeposit(last)
           amount == deposits[dk].tokens_deposited
           rewards_before == pools[last.pool].current_rewards + deposits[dk].tokens_claimed
           staked_before == pools[last.pool].current_tokens_staked + amount
       IN  /\ amount * rewards_before > U64Max
           /\ staked_before >= amount
           /\ deposits[dk].tokens_claimed > 0

\* C5: for every deposit that is not withdrawn, in a pool that is not in
\* emergency mode, unstake fails with a StateError while the cooldown has not
\* been activated, fails with a StateError while now < unlock_timestamp, and
\* succeeds once the cooldown is active and now >= unlock_timestamp.
C5_CooldownGating ==
    \A dk \in ActiveDeposits :
        ~pools[dk[2]].emergency_mode_enabled =>
            /\ ~deposits[dk].is_cooldown_active => UnstakeResult(dk) \in StateErrors
            /\ (deposits[dk].is_cooldown_active /\ now < deposits[dk].unlock_timestamp)
                   => UnstakeResult(dk) \in StateErrors
            /\ (deposits[dk].is_cooldown_active /\ now >= deposits[dk].unlock_timestamp)
                   => UnstakeResult(dk) = "Ok"

\* C6: on a deposit that is already withdrawn, unstake and unstake_emergency
\* fail with a StateError.
C6_SecondExitFails ==
    \A dk \in DOMAIN deposits :
        deposits[dk].is_withdrawn =>
            /\ UnstakeResult(dk) \in StateErrors
            /\ EmergencyResult(dk) \in StateErrors

\* What stake and unstake return on a pool in emergency mode.
C7_Blocked ==
    \A pk \in DOMAIN pools :
        pools[pk].emergency_mode_enabled =>
            /\ \A s \in Stakers, a \in 0..U64Max :
                   stake_error(pools[pk], staker_stats[s], balance[s], a) \in StateErrors
            /\ \A dk \in DOMAIN deposits : dk[2] = pk => UnstakeResult(dk) \in StateErrors

\* No step commits a stake or an unstake on a pool in emergency mode, and the
\* pool stays in emergency mode.
C7_Step ==
    /\ (Commits("stake") \/ Commits("unstake")) => ~pools[last'.pool].emergency_mode_enabled
    /\ \A pk \in DOMAIN pools :
           pools[pk].emergency_mode_enabled =>
               pk \in DOMAIN pools' /\ pools'[pk].emergency_mode_enabled

C8_EmergencyExitsSucceed ==
    \A pk \in DOMAIN pools :
        pools[pk].emergency_mode_enabled =>
            /\ withdraw_rewards_emergency_error(pools[pk], pk[1], pk[1], pool_vault[pk]) = "Ok"
            /\ \A dk \in ActiveInPool(pk) : EmergencyResult(dk) = "Ok"

\* What enable_emergency_mode returns on a pool in emergency mode.
C9_Rejected ==
    \A pk \in DOMAIN pools :
        pools[pk].emergency_mode_enabled =>
            /\ enable_emergency_mode_error(pools[pk], pk[1], pk[1]) = "EmergencyModeAlreadyEnabled"
            /\ enable_emergency_mode_error(pools[pk], pk[1], pk[1]) \in StateErrors

\* A step creates pools out of emergency mode and keeps a set flag set.
C9_Step ==
    \A pk \in DOMAIN pools' :
        /\ pk \notin DOMAIN pools => ~pools'[pk].emergency_mode_enabled
        /\ (pk \in DOMAIN pools /\ pools[pk].emergency_mode_enabled)
               => pools'[pk].emergency_mode_enabled

\* C9: a pool is created with emergency_mode_enabled = FALSE, no instruction
\* resets the flag once it is TRUE, and enable_emergency_mode by the creator on
\* a pool already in emergency mode fails with EmergencyModeAlreadyEnabled.
C9_EmergencyOneWay == []C9_Rejected /\ [][C9_Step]_vars

\* C9 witness: an instruction has committed on a pool after its emergency mode
\* was enabled.
C9_Witness ==
    /\ last.op \in {"fund_pool", "change_pool_cooldown", "unstake_emergency",
                    "withdraw_rewards_emergency"}
    /\ pools[last.pool].emergency_mode_enabled

\* What the deposit instructions return on a withdrawn deposit.
C10_Rejected ==
    \A dk \in DOMAIN deposits :
        deposits[dk].is_withdrawn =>
            /\ activate_cooldown_error(deposits[dk]) # "Ok"
            /\ UnstakeResult(dk) # "Ok"
            /\ EmergencyResult(dk) # "Ok"

\* A step leaves withdrawn deposits alone and exits only deposits not withdrawn.
C10_Step ==
    /\ \A dk \in DOMAIN deposits :
           deposits[dk].is_withdrawn =>
               /\ dk \in DOMAIN deposits'
               /\ deposits'[dk] = deposits[dk]
    /\ (Commits("unstake") \/ Commits("unstake_emergency")) =>
           ~deposits[LastDeposit(last')].is_withdrawn

\* C10: a withdrawn deposit never changes again; activate_cooldown, unstake and
\* unstake_emergency fail on it; and every committed unstake or
\* unstake_emergency acts on a deposit that was not withdrawn, so a deposit's
\* principal is paid out at most once.
C10_WithdrawnIsTerminal == []C10_Rejected /\ [][C10_Step]_vars

\* C10 witness: a deposit exited through unstake sits in a pool that has since
\* entered emergency mode and whose vault still holds the deposit's amount.
C10_Witness ==
    \E dk \in DOMAIN deposits :
        /\ deposits[dk].is_withdrawn
        /\ deposits[dk].tokens_claimed > 0
        /\ pools[dk[2]].emergency_mode_enabled
        /\ pool_vault[dk[2]] >= deposits[dk].tokens_deposited
        /\ staker_stats[dk[1]] >= deposits[dk].tokens_deposited
        /\ pools[dk[2]].current_tokens_staked >= deposits[dk].tokens_deposited

\* What a step that commits an unstake_emergency does, against the values
\* before it.
C11_Step ==
    Commits("unstake_emergency") =>
        LET dk == LastDeposit(last')
            pk == last'.pool
            amount == deposits[dk].tokens_deposited
        IN  /\ balance'[last'.signer] = balance[last'.signer] + amount
            /\ pool_vault'[pk] = pool_vault[pk] - amount
            /\ deposits'[dk] = [deposits[dk] EXCEPT !.is_withdrawn = TRUE]
            /\ deposits'[dk].tokens_claimed = deposits[dk].tokens_claimed
            /\ pools'[pk] = [pools[pk] EXCEPT !.current_tokens_staked = @ - amount]
            /\ pools'[pk].current_rewards = pools[pk].current_rewards
            /\ staker_stats'[last'.signer] = staker_stats[last'.signer] - amount

\* C11: a committed unstake_emergency pays the staker exactly tokens_deposited
\* and no reward: it sets is_withdrawn, decreases the pool's
\* current_tokens_staked and the staker's total_staked by tokens_deposited, and
\* leaves current_rewards and tokens_claimed as they were.
C11_EmergencyUnstakeEffect == [][C11_Step]_vars

\* C11 witness: an unstake_emergency has returned a positive deposit from a
\* pool that still holds rewards.
C11_Witness ==
    /\ last.op = "unstake_emergency"
    /\ deposits[LastDeposit(last)].is_withdrawn
    /\ deposits[LastDeposit(last)].tokens_deposited > 0
    /\ deposits[LastDeposit(last)].tokens_claimed = 0
    /\ pools[last.pool].current_rewards > 0

\* What withdraw_rewards_emergency by the creator returns on a pool that is not
\* in emergency mode.
C12_Rejected ==
    \A pk \in DOMAIN pools :
        ~pools[pk].emergency_mode_enabled =>
            /\ withdraw_rewards_emergency_error(pools[pk], pk[1], pk[1], pool_vault[pk])
                   = "EmergencyModeNotEnabled"
            /\ withdraw_rewards_emergency_error(pools[pk], pk[1], pk[1], pool_vault[pk])
                   \in StateErrors

\* What a step that commits a withdraw_rewards_emergency does, against the
\* values before it.
C12_Step ==
    Commits("withdraw_rewards_emergency") =>
        LET pk == last'.pool
            rewards_before == pools[pk].current_rewards
        IN  /\ pools[pk].emergency_mode_enabled
            /\ balance'[last'.signer] = balance[last'.signer] + rewards_before
            /\ pool_vault'[pk] = pool_vault[pk] - rewards_before
            /\ pools'[pk].current_rewards = 0
            /\ pools'[pk].current_tokens_staked = pools[pk].current_tokens_staked
            /\ deposits' = deposits
            /\ staker_stats' = staker_stats

\* C12: a committed withdraw_rewards_emergency pays the creator exactly the
\* current_rewards the pool had before the instruction, leaves current_rewards
\* = 0 and current_tokens_staked unchanged, and commits only on a pool in
\* emergency mode; on a pool that is not in emergency mode it fails with
\* EmergencyModeNotEnabled.
C12_WithdrawRewardsEmergency == []C12_Rejected /\ [][C12_Step]_vars

\* C12 witness: a withdraw_rewards_emergency has emptied current_rewards of a
\* pool that had paid a reward before, and the vault still holds the principal
\* of the tokens that remain staked.
C12_Witness ==
    /\ last.op = "withdraw_rewards_emergency"
    /\ pools[last.pool].current_rewards = 0
    /\ pools[last.pool].current_tokens_staked > 0
    /\ pool_vault[last.pool] = pools[last.pool].current_tokens_staked
    /\ \E dk \in DOMAIN deposits : dk[2] = last.pool /\ deposits[dk].tokens_claimed > 0

\* What the creator-only instructions return to a signer who is not the
\* pool's creator.
C13_Rejected ==
    \A pk \in DOMAIN pools : \A s \in Users \ {pk[1]} :
        /\ \A a \in 0..U64Max :
               fund_pool_error(pools[pk], pk[1], s, balance[s], a) = "UnauthorizedPoolAccess"
        /\ enable_emergency_mode_error(pools[pk], pk[1], s) = "UnauthorizedPoolAccess"
        /\ change_pool_cooldown_error(pk[1], s) = "UnauthorizedPoolAccess"
        /\ withdraw_rewards_emergency_error(pools[pk], pk[1], s, pool_vault[pk])
               = "UnauthorizedPoolAccess"

\* Every committed creator-only instruction is signed by the pool's creator,
\* and claim_cooldown and emergency_mode_enabled change in no other step.
C13_Step ==
    /\ (\/ Commits("fund_pool") \/ Commits("enable_emergency_mode")
        \/ Commits("change_pool_cooldown") \/ Commits("withdraw_rewards_emergency"))
           => last'.signer = last'.pool[1]
    /\ \A pk \in DOMAIN pools :
           (\/ pools'[pk].claim_cooldown # pools[pk].claim_cooldown
            \/ pools'[pk].emergency_mode_enabled # pools[pk].emergency_mode_enabled
            \/ pools'[pk].current_rewards > pools[pk].current_rewards)
               => last'.signer = pk[1] /\ last'.pool = pk

\* C13: fund_pool, change_pool_cooldown, enable_emergency_mode and
\* withdraw_rewards_emergency signed by anyone but the pool's creator fail with
\* UnauthorizedPoolAccess (a stuttering step: no record, no balance changes);
\* only steps signed by the creator raise current_rewards or change
\* claim_cooldown or emergency_mode_enabled.
C13_CreatorOnly == []C13_Rejected /\ [][C13_Step]_vars

\* C13 witness: the pool was last changed by its creator while another user
\* holds tokens he could have funded it with.
C13_Witness ==
    /\ last.op \in {"fund_pool", "change_pool_cooldown", "enable_emergency_mode",
                    "withdraw_rewards_emergency"}
    /\ last.signer = last.pool[1]
    /\ \E s \in Users \ {last.pool[1]} : balance[s] > 0

\* What the steps that commit change_pool_cooldown and activate_cooldown do,
\* against the values before them.
C14_Step ==
    /\ Commits("change_pool_cooldown") =>
           /\ deposits' = deposits
           /\ staker_stats' = staker_stats
           /\ pool_vault' = pool_vault
           /\ balance' = balance
           /\ DOMAIN pools' = DOMAIN pools
           /\ \A pk \in DOMAIN pools :
                  \E cd \in Cooldowns :
                      pools'[pk] = IF pk = last'.pool
                                   THEN [pools[pk] EXCEPT !.claim_cooldown = cd]
                                   ELSE pools[pk]
    /\ Commits("activate_cooldown") =>
           LET dk == LastDeposit(last')
           IN  /\ deposits'[dk].is_cooldown_active
               /\ deposits'[dk].unlock_timestamp = now + pools[last'.pool].claim_cooldown
               /\ \A d \in DOMAIN deposits : d # dk => deposits'[d] = deposits[d]

\* C14: change_pool_cooldown changes claim_cooldown of its pool and nothing
\* else (no deposit's unlock_timestamp or is_cooldown_active), and every
\* activate_cooldown sets unlock_timestamp to now + the pool's claim_cooldown
\* at that moment, leaving the other deposits alone.
C14_CooldownChange == [][C14_Step]_vars

\* C14 witness: a cooldown was just activated under the pool's current
\* claim_cooldown while another deposit keeps an unlock time, computed under
\* the earlier claim_cooldown, that the current one would not give.
C14_Witness ==
    /\ last.op = "activate_cooldown"
    /\ LET dk == LastDeposit(last)
       IN  /\ deposits[dk].unlock_timestamp = now + pools[last.pool].claim_cooldown
           /\ \E d \in DOMAIN deposits :
                  /\ d # dk /\ d[2] = last.pool
                  /\ deposits[d].is_cooldown_active
                  /\ deposits[d].unlock_timestamp > now + pools[last.pool].claim_cooldown

\* What activate_cooldown returns on a deposit whose cooldown is active.
C15_Rejected ==
    \A dk \in ActiveDeposits :
        deposits[dk].is_cooldown_active =>
            /\ activate_cooldown_error(deposits[dk]) = "CooldownAlreadyActivated"
            /\ activate_cooldown_error(deposits[dk]) \in StateErrors

\* An active cooldown stays active with its unlock time, and an
\* activate_cooldown commits only on a deposit whose cooldown was not active.
C15_Step ==
    /\ \A dk \in DOMAIN deposits :
           deposits[dk].is_cooldown_active =>
               /\ deposits'[dk].is_cooldown_active
               /\ deposits'[dk].unlock_timestamp = deposits[dk].unlock_timestamp
    /\ Commits("activate_cooldown") => ~deposits[LastDeposit(last')].is_cooldown_active

\* C15: activate_cooldown on a deposit that is not withdrawn and whose cooldown
\* is already active fails with CooldownAlreadyActivated, and the deposit's
\* unlock_timestamp keeps the value the first activation set in every later
\* state.
C15_CooldownSingleUse == []C15_Rejected /\ [][C15_Step]_vars

\* C15 witness: a deposit that is not withdrawn has an active cooldown whose
\* unlock time a fresh activation would move.
C15_Witness ==
    \E dk \in ActiveDeposits :
        /\ deposits[dk].is_cooldown_active
        /\ deposits[dk].unlock_timestamp # now + pools[dk[2]].claim_cooldown

\* C16: stake with deposit_amount = 0 fails, and every deposit has
\* tokens_deposited > 0.
C16_NoZeroDeposit ==
    /\ \A pk \in DOMAIN pools : \A s \in Stakers :
           stake_error(pools[pk], staker_stats[s], balance[s], 0) # "Ok"
    /\ \A dk \in DOMAIN deposits : deposits[dk].tokens_deposited > 0

\* No account of the token program holds a negative amount.
C17_Funds ==
    /\ \A u \in Users : balance[u] >= 0
    /\ \A pk \in DOMAIN pool_vault : pool_vault[pk] >= 0

\* An instruction commits only if the source of each transfer it issues held
\* the amount; every other attempt is a stuttering step.
C17_Step ==
    /\ Commits("create_pool") =>
           balance[last'.signer] >= pools'[last'.pool].current_rewards
    /\ Commits("fund_pool") =>
           balance[last'.signer] >=
               pools'[last'.pool].current_rewards - pools[last'.pool].current_rewards
    /\ Commits("stake") =>
           balance[last'.signer] >= deposits'[LastDeposit(last')].tokens_deposited
    /\ Commits("unstake") =>
           pool_vault[last'.pool] >= deposits'[LastDeposit(last')].tokens_deposited
                                       + deposits'[LastDeposit(last')].tokens_claimed
    /\ Commits("unstake_emergency") =>
           pool_vault[last'.pool] >= deposits[LastDeposit(last')].tokens_deposited
    /\ Commits("withdraw_rewards_emergency") =>
           pool_vault[last'.pool] >= pools[last'.pool].current_rewards
    /\ \A pk \in DOMAIN pools : pk \in DOMAIN pools'
    /\ \A dk \in DOMAIN deposits : dk \in DOMAIN deposits'

\* C17: an instruction whose token transfer fails commits nothing: every
\* committed create_pool, fund_pool, stake, unstake, unstake_emergency and
\* withdraw_rewards_emergency found the amount of each of its transfers in the
\* source account, no account is ever overdrawn, and no pool or deposit record
\* exists that a later failure removes.
C17_TransferAtomic == []C17_Funds /\ [][C17_Step]_vars

\* C17 witness: an unstake that passes every check of the handler is submitted
\* to a pool whose vault cannot pay principal plus reward.
C17_Witness ==
    \E dk \in ActiveDeposits :
        /\ deposits[dk].tokens_deposited > 0
        /\ UnstakeResult(dk) = "InsufficientFunds"

\* What execute_sol_transfer and execute_spl_transfer return for proposal pk
\* in this state.
ExecuteSolResult(pk) ==
    execute_sol_transfer_error(vaults[pk[1]], proposals[pk], vault_funds[pk[1]]["sol"])
ExecuteSplResult(pk, mint, vault_token_account) ==
    execute_spl_transfer_error(vaults[pk[1]], proposals[pk], mint, vault_token_account,
                               vault_funds[pk[1]]["token"])

\* The number of signers of the proposal's vault recorded as having approved.
Approvals(pk) == Cardinality({i \in DOMAIN vaults[pk[1]].signers : proposals[pk].approvals[i]})

\* The proposal the committed instruction `last` acted on.
LastProposal(l) == <<l.pool, l.deposit_id>>

\* A step in which a vault pays out.
VaultPays == \E vk \in DOMAIN vault_funds, a \in Assets : vault_funds'[vk][a] < vault_funds[vk][a]

\* The executions a proposal with fewer approvals than the threshold admits:
\* none; the execute instruction of the proposal's kind returns
\* InsufficientApprovals, and the proposer's own approval is on record.
C18_Gate ==
    \A pk \in DOMAIN proposals :
        /\ proposals[pk].approvals[signers_position(vaults[pk[1]].signers,
                                                    proposals[pk].proposer)]
        /\ Approvals(pk) < vaults[pk[1]].threshold =>
               /\ ExecuteSolResult(pk) # "Ok"
               /\ \A m \in Mints, v \in VaultArgs : ExecuteSplResult(pk, m, v) # "Ok"
               /\ proposals[pk].token_mint = NoMint =>
                      ExecuteSolResult(pk) = "InsufficientApprovals"
               /\ proposals[pk].token_mint # NoMint =>
                      \A v \in VaultArgs :
                          ExecuteSplResult(pk, proposals[pk].token_mint, v)
                              = "InsufficientApprovals"

\* An execution commits, and a vault pays out, only on a proposal whose
\* approvals had reached the threshold.
C18_Step ==
    /\ (Commits("execute_sol_transfer") \/ Commits("execute_spl_transfer")) =>
           Approvals(LastProposal(last')) >= vaults[last'.pool].threshold
    /\ VaultPays =>
           /\ Commits("execute_sol_transfer") \/ Commits("execute_spl_transfer")
           /\ Approvals(LastProposal(last')) >= vaults[last'.pool].threshold

\* C18: execute_sol_transfer and execute_spl_transfer commit only when the
\* number of vault signers recorded as having approved the proposal (the
\* proposer's approval recorded by propose_transfer) is at least
\* vault.threshold; with fewer approvals neither of them succeeds, the one of
\* the proposal's kind returns InsufficientApprovals, and no vault pays out.
C18_ThresholdGate == []C18_Gate /\ [][C18_Step]_vars

\* C18 witness: a proposal of a vault with threshold 2 was executed and paid a
\* positive amount with exactly two approvals.
C18_Witness ==
    /\ last.op \in {"execute_sol_transfer", "execute_spl_transfer"}
    /\ proposals[LastProposal(last)].executed
    /\ proposals[LastProposal(last)].amount > 0
    /\ vaults[last.pool].threshold = 2
    /\ Approvals(LastProposal(last)) = 2
    /\ \E k \in Keys \ {"alice"} : \E a \in Assets : wallet[k][a] > 0

\* What the three instructions return on an executed proposal.
C19_Rejected ==
    \A pk \in DOMAIN proposals :
        proposals[pk].executed =>
            /\ ExecuteSolResult(pk) = "AlreadyExecuted"
            /\ \A m \in Mints, v \in VaultArgs : ExecuteSplResult(pk, m, v) = "AlreadyExecuted"
            /\ \A k \in Keys :
                   approve_transfer_error(vaults[pk[1]], proposals[pk], k) = "AlreadyExecuted"

\* An executed proposal never changes again; an execution commits, and a vault
\* pays out, only on a proposal that was not executed, which it marks executed.
C19_Step ==
    /\ \A pk \in DOMAIN proposals :
           proposals[pk].executed => pk \in DOMAIN proposals' /\ proposals'[pk] = proposals[pk]
    /\ (Commits("execute_sol_transfer") \/ Commits("execute_spl_transfer")) =>
           /\ ~proposals[LastProposal(last')].executed
           /\ proposals'[LastProposal(last')].executed
    /\ VaultPays =>
           /\ ~proposals[LastProposal(last')].executed
           /\ proposals'[LastProposal(last')].executed
           /\ \A vk \in DOMAIN vault_funds, a \in Assets :
                  vault_funds[vk][a] - vault_funds'[vk][a] \in
                      {0, proposals[LastProposal(last')].amount}

\* C19: a proposal is executed at most once: an execution sets executed, no
\* instruction resets it or changes an executed proposal, every later
\* execute_sol_transfer, execute_spl_transfer and approve_transfer on it returns
\* AlreadyExecuted, and a vault pays out only in the step that sets executed,
\* the proposal's amount and no more.
C19_ExecutedOnce == []C19_Rejected /\ [][C19_Step]_vars

\* C19 witness: an executed SOL proposal with a positive amount whose vault
\* still holds enough lamports to pay it again.
C19_Witness ==
    \E pk \in DOMAIN proposals :
        /\ proposals[pk].executed
        /\ proposals[pk].token_mint = NoMint
        /\ proposals[pk].amount > 0
        /\ vault_funds[pk[1]]["sol"] >= proposals[pk].amount

\* The profiles of presale pool_id, and the sum of contributed over a set of
\* profiles.
ProfilesOf(pool_id) == {fk \in DOMAIN profiles : fk[2] = pool_id}

RECURSIVE SumContributed(_)
SumContributed(keys) ==
    IF keys = {} THEN 0
    ELSE LET fk == CHOOSE k \in keys : TRUE
         IN  profiles[fk].contributed + SumContributed(keys \ {fk})

\* What contribute returns to contributor c for amount n in this state.
ContributeResult(c, pool_id, n) ==
    contribute_error(presales[pool_id], contribute_profile(c, pool_id), n, now,
                     holdings[c].sol)

\* The caps hold in this state.
C20_Caps ==
    \A pool_id \in DOMAIN presales :
        /\ presales[pool_id].total_contributions <= presales[pool_id].hard_cap
        /\ \A fk \in ProfilesOf(pool_id) :
               profiles[fk].contributed <= presales[pool_id].max_contribution
        /\ presales[pool_id].total_contributions = SumContributed(ProfilesOf(pool_id))

\* What contribute returns for an amount that would break a cap: an error; and
\* past the window, minimum and overflow checks, ContributionAboveMaximum for
\* the profile's cap and otherwise HardcapExceeded.
C20_Rejected ==
    \A pool_id \in DOMAIN presales : \A c \in Contributors, n \in 0..U64Max :
        LET presale == presales[pool_id]
            contributed == contribute_profile(c, pool_id).contributed
            above_max == contributed + n > presale.max_contribution
            above_cap == presale.total_contributions + n > presale.hard_cap
            checked == /\ now >= presale.start_timestamp
                       /\ now <= presale.end_timestamp
                       /\ n >= presale.min_contribution
                       /\ contributed + n <= U64Max
                       /\ presale.total_contributions + n <= U64Max
        IN  /\ (above_max \/ above_cap) => ContributeResult(c, pool_id, n) # "Ok"
            /\ (checked /\ above_max) =>
                   ContributeResult(c, pool_id, n) = "ContributionAboveMaximum"
            /\ (checked /\ ~above_max /\ above_cap) =>
                   ContributeResult(c, pool_id, n) = "HardcapExceeded"

\* A committed contribute adds the lamports it moved to the profile and to the
\* total; nothing else changes contributed or total_contributions.
C20_Step ==
    /\ Commits("contribute") =>
           LET pool_id == last'.pool[2]
               fk == <<last'.signer, pool_id>>
               n == presale_lamports'[pool_id] - presale_lamports[pool_id]
           IN  /\ n >= 0
               /\ holdings'[last'.signer].sol = holdings[last'.signer].sol - n
               /\ profiles'[fk].contributed = contribute_profile(last'.signer, pool_id).contributed + n
               /\ presales'[pool_id].total_contributions =
                      presales[pool_id].total_contributions + n
    /\ ~Commits("contribute") =>
           /\ \A fk \in DOMAIN profiles : profiles'[fk].contributed = profiles[fk].contributed
           /\ \A pool_id \in DOMAIN presales :
                  presales'[pool_id].total_contributions = presales[pool_id].total_contributions

\* C20: in every reachable state total_contributions <= hard_cap, every
\* profile's contributed <= max_contribution, and total_contributions is the
\* sum of contributed over the presale's profiles; a contribute that would
\* exceed max_contribution or hard_cap fails (ContributionAboveMaximum,
\* HardcapExceeded once the earlier checks pass) and commits nothing, and only
\* a committed contribute changes contributed and total_contributions, both by
\* the lamports it moved.
C20_ContributionCaps == [](C20_Caps /\ C20_Rejected) /\ [][C20_Step]_vars

\* C20 witness: two contributors have filled a presale to its hard cap, and a
\* contributor who still holds SOL, and is below max_contribution, is refused
\* one lamport more.
C20_Witness ==
    /\ last.op = "contribute"
    /\ LET pool_id == last.pool[2]
       IN  /\ presales[pool_id].total_contributions = presales[pool_id].hard_cap
           /\ \A c \in Contributors :
                  /\ <<c, pool_id>> \in DOMAIN profiles
                  /\ profiles[<<c, pool_id>>].contributed > 0
           /\ \E c \in Contributors :
                  /\ holdings[c].sol > 0
                  /\ ContributeResult(c, pool_id, 1) = "HardcapExceeded"

\* What claim returns to contributor c in this state.
ClaimResult(c, pool_id) ==
    claim_error(presales[pool_id], profiles[<<c, pool_id>>], presale_lamports[pool_id],
                presale_vault[pool_id])

\* A claimed profile is turned away with AlreadyClaimed.
C21_Rejected ==
    \A fk \in DOMAIN profiles :
        profiles[fk].claimed => ClaimResult(fk[1], fk[2]) = "AlreadyClaimed"

\* A committed claim acts on an unclaimed profile and marks it claimed; below
\* the soft cap it moves contributed lamports from the presale account to the
\* contributor, otherwise floor(contributed * 10^decimals / price) tokens from
\* the presale vault; a claimed profile stays claimed, and a contributor's
\* holdings grow by nothing but their own claim.
C21_Step ==
    /\ Commits("claim") =>
           LET c == last'.signer
               pool_id == last'.pool[2]
               fk == <<c, pool_id>>
               presale == presales[pool_id]
               contributed == profiles[fk].contributed
               tokens == (contributed * 10 ^ MintDecimals) \div presale.token_price_lamports
           IN  /\ ~profiles[fk].claimed
               /\ profiles'[fk].claimed
               /\ contributed > 0
               /\ IF presale.total_contributions < presale.soft_cap
                  THEN /\ holdings'[c].sol = holdings[c].sol + contributed
                       /\ presale_lamports'[pool_id] = presale_lamports[pool_id] - contributed
                       /\ holdings'[c].token = holdings[c].token
                       /\ presale_vault' = presale_vault
                  ELSE /\ holdings'[c].token = holdings[c].token + tokens
                       /\ presale_vault'[pool_id] = presale_vault[pool_id] - tokens
                       /\ tokens > 0
                       /\ holdings'[c].sol = holdings[c].sol
                       /\ presale_lamports' = presale_lamports
    /\ \A fk \in DOMAIN profiles : profiles[fk].claimed => profiles'[fk].claimed
    /\ \A c \in Contributors :
           (holdings'[c].sol > holdings[c].sol \/ holdings'[c].token > holdings[c].token) =>
               (Commits("claim") /\ last'.signer = c)

AdminWithdrawResult(k, pool_id, n, r) ==
    admin_withdraw_error(presales[pool_id], k, r, n, presale_lamports[pool_id])

\* admin_withdraw fails below the soft cap, for a signer who is not the
\* authority and for a destination that is not the stored funds_receiver; the
\* authority paying the funds_receiver below the soft cap gets
\* SoftcapNotReached.
C22_Rejected ==
    \A pool_id \in DOMAIN presales : \A k \in Keys, r \in Keys, n \in 0..U64Max :
        LET presale == presales[pool_id]
            below == presale.total_contributions < presale.soft_cap
            named == k = presale.authority /\ r = presale.funds_receiver
        IN  /\ (below \/ ~named) => AdminWithdrawResult(k, pool_id, n, r) # "Ok"
            /\ (below /\ named) => AdminWithdrawResult(k, pool_id, n, r) = "SoftcapNotReached"

\* A committed admin_withdraw is signed by the authority of a presale at or
\* above its soft cap and moves lamports from the presale account to the
\* stored funds_receiver and to no one else.
C22_Step ==
    Commits("admin_withdraw") =>
        LET pool_id == last'.pool[2]
            presale == presales[pool_id]
            moved == presale_lamports[pool_id] - presale_lamports'[pool_id]
        IN  /\ presale.total_contributions >= presale.soft_cap
            /\ last'.signer = presale.authority
            /\ moved > 0
            /\ presale_lamports'[pool_id] >= RentMinimum
            /\ holdings' = [holdings EXCEPT ![presale.funds_receiver].sol = @ + moved]
            /\ UNCHANGED <<presales, profiles, presale_vault>>

\* C22: admin_withdraw commits only at or above the soft cap, only signed by
\* the presale authority, and pays only the stored funds_receiver; in every
\* other case it fails and nothing moves, with SoftcapNotReached when the
\* authority asks below the soft cap.
C22_AdminWithdraw == []C22_Rejected /\ [][C22_Step]_vars

\* C22 witness: the authority has withdrawn the contributions of a presale
\* that reached its soft cap, and another key is refused.
C22_Witness ==
    /\ last.op = "admin_withdraw"
    /\ LET pool_id == last.pool[2]
           presale == presales[pool_id]
       IN  /\ presale.total_contributions >= presale.soft_cap
           /\ presale_lamports[pool_id] = RentMinimum
           /\ holdings[presale.funds_receiver].sol = presale.total_contributions
           /\ \E k \in Keys \ {presale.authority} :
                  AdminWithdrawResult(k, pool_id, 1, presale.funds_receiver) = "ConstraintHasOne"

\* What unlock returns to signer k in this state.
UnlockResult(k, sk) == unlock_error(schedules[sk], k, now, schedule_vault[sk])

\* How `last` names the schedule of a vesting instruction.
LastSchedule(l) == l.pool[2]

\* No schedule has unlocked more than it locked.
C23_Bounded ==
    \A sk \in DOMAIN schedules :
        schedules[sk].unlocked_amount <= schedules[sk].total_amount

\* A committed unlock pays the beneficiary one interval's worth, capped by
\* what is still locked, and advances unlocked_amount by what it paid; nothing
\* else changes unlocked_amount or total_amount.
C23_Step ==
    /\ Commits("unlock") =>
           LET sk == LastSchedule(last')
               schedule == schedules[sk]
               per_interval == (schedule.total_amount * schedule.unlock_percentage) \div 100
               remaining == schedule.total_amount - schedule.unlocked_amount
               paid == IF per_interval < remaining THEN per_interval ELSE remaining
           IN  /\ paid > 0
               /\ token_accounts' =
                      [token_accounts EXCEPT ![schedule.beneficiary] = @ + paid]
               /\ schedule_vault'[sk] = schedule_vault[sk] - paid
               /\ schedules'[sk].unlocked_amount = schedule.unlocked_amount + paid
               /\ schedules'[sk].total_amount = schedule.total_amount
    /\ ~Commits("unlock") =>
           \A sk \in DOMAIN schedules :
               /\ schedules'[sk].unlocked_amount = schedules[sk].unlocked_amount
               /\ schedules'[sk].total_amount = schedules[sk].total_amount

\* C23: in every reachable state unlocked_amount <= total_amount, and a
\* committed unlock transfers to the beneficiary exactly
\* min(floor(total_amount * unlock_percentage / 100), total_amount -
\* unlocked_amount) and increases unlocked_amount by that amount.
C23_UnlockAmount == []C23_Bounded /\ [][C23_Step]_vars

\* C23 witness: a schedule whose interval amount does not divide its total has
\* been unlocked to the end, the last unlock paying the capped remainder.
C23_Witness ==
    /\ last.op = "unlock"
    /\ LET schedule == schedules[LastSchedule(last)]
       IN  /\ schedule.unlocked_amount = schedule.total_amount
           /\ unlock_amount_per_interval(schedule) > 1
           /\ schedule.total_amount % unlock_amount_per_interval(schedule) # 0
           /\ token_accounts[schedule.beneficiary] = schedule.total_amount

\* Before the cliff end the beneficiary's unlock returns CliffNotPassed.
C24_Cliff ==
    \A sk \in DOMAIN schedules :
        now < schedules[sk].cliff_end_timestamp =>
            UnlockResult(schedules[sk].beneficiary, sk) = "CliffNotPassed"

\* last_unlock_timestamp is the cliff end until the first unlock and the time
\* of the latest committed unlock afterwards; a committed unlock comes at
\* least interval_duration after it.
C24_Step ==
    /\ Commits("unlock") =>
           LET sk == LastSchedule(last')
               schedule == schedules[sk]
           IN  /\ now >= schedule.cliff_end_timestamp
               /\ schedule.unlocked_amount = 0 =>
                      schedule.last_unlock_timestamp = schedule.cliff_end_timestamp
               /\ now - schedule.last_unlock_timestamp >= schedule.interval_duration
               /\ schedules'[sk].last_unlock_timestamp = now
    /\ ~Commits("unlock") =>
           \A sk \in DOMAIN schedules :
               schedules'[sk].last_unlock_timestamp = schedules[sk].last_unlock_timestamp
    /\ now' >= now

\* C24: unlock returns CliffNotPassed while now < cliff_end_timestamp; the
\* first unlock commits only once a full interval_duration has passed since
\* the cliff end, and every later unlock only once a full interval_duration
\* has passed since the previous committed unlock of the schedule.
C24_UnlockTiming == []C24_Cliff /\ [][C24_Step]_vars

\* C24 witness: after a second unlock a further interval has vested, yet the
\* next unlock is refused until an interval has passed since this one.
C24_Witness ==
    /\ last.op = "unlock"
    /\ LET sk == LastSchedule(last)
           schedule == schedules[sk]
       IN  /\ schedule.unlocked_amount > unlock_amount_per_interval(schedule)
           /\ schedule.unlocked_amount < schedule.total_amount
           /\ schedule.last_unlock_timestamp = now
           /\ unlock_total_intervals_passed(schedule, now)
                  > unlock_intervals_unlocked_so_far(schedule)
           /\ UnlockResult(schedule.beneficiary, sk) = "IntervalNotPassed"

\* C25: in every staking operation the precondition checks come before any
\* transfer and any mutation: an unstake, unstake_emergency or
\* withdraw_rewards_emergency whose emergency-mode, withdrawn, cooldown or
\* creator check fails returns that check's error, never the outcome of a
\* transfer issued ahead of the check.
C25_ChecksBeforeTransfer ==
    /\ \A dk \in DOMAIN deposits :
           LET pool == pools[dk[2]]
               deposit == deposits[dk]
           IN  /\ unstake_require(pool, deposit, now) # "Ok" =>
                      UnstakeResult(dk) = unstake_require(pool, deposit, now)
               /\ (~pool.emergency_mode_enabled \/ deposit.is_withdrawn) =>
                      EmergencyResult(dk) \in {"EmergencyModeNotEnabled", "DepositAlreadyWithdrawn"}
    /\ \A pk \in DOMAIN pools : \A s \in Users :
           (s # pk[1] \/ ~pools[pk].emergency_mode_enabled) =>
               withdraw_rewards_emergency_error(pools[pk], pk[1], s, pool_vault[pk])
                   \in {"UnauthorizedPoolAccess", "EmergencyModeNotEnabled"}

\* C26: unstake, unstake_emergency and withdraw_rewards_emergency write their
\* re-entry guard before they issue the vault transfer: the same operation
\* invoked again on the records as they stand at the transfer, with the vault
\* already debited, is rejected (unstake, unstake_emergency of a deposit that
\* holds tokens) or pays nothing (withdraw_rewards_emergency).
C26_GuardBeforeTransfer ==
    /\ \A dk \in DOMAIN deposits :
           LET pool == pools[dk[2]]
               deposit == deposits[dk]
               user_rewards == economy_estimate_rewards(pool.current_tokens_staked,
                                   deposit.tokens_deposited, pool.current_rewards)
           IN  /\ UnstakeResult(dk) = "Ok" =>
                      unstake_error(pool, unstake_deposit_at_transfer(deposit, user_rewards),
                                    staker_stats[dk[1]],
                                    pool_vault[dk[2]] - deposit.tokens_deposited, now) # "Ok"
               /\ (EmergencyResult(dk) = "Ok" /\ deposit.tokens_deposited > 0) =>
                      unstake_emergency_error(pool,
                                              unstake_emergency_deposit_at_transfer(deposit),
                                              staker_stats[dk[1]],
                                              pool_vault[dk[2]] - deposit.tokens_deposited) # "Ok"
    /\ \A pk \in DOMAIN pools :
           withdraw_rewards_emergency_error(pools[pk], pk[1], pk[1], pool_vault[pk]) = "Ok" =>
               withdraw_rewards_emergency_amount(
                   withdraw_rewards_emergency_pool_at_transfer(pools[pk])) = 0

\* The errors of the four preconditions of unstake.
UnstakeCheckErrors ==
    {"EmergencyModeEnabled", "DepositAlreadyWithdrawn", "ClaimCooldownNotActive",
     "ClaimCooldownNotElapsed"}

\* C27: unstake reports the first violated precondition in the order
\* emergency mode off, deposit not withdrawn, cooldown active, unlock time
\* reached, each with an error of its own, and none of these errors when all
\* four hold.
C27_UnstakeCheckOrder ==
    \A dk \in DOMAIN deposits :
        LET pool == pools[dk[2]]
            deposit == deposits[dk]
        IN  IF pool.emergency_mode_enabled
            THEN UnstakeResult(dk) = "EmergencyModeEnabled"
            ELSE IF deposit.is_withdrawn
            THEN UnstakeResult(dk) = "DepositAlreadyWithdrawn"
            ELSE IF ~deposit.is_cooldown_active
            THEN UnstakeResult(dk) = "ClaimCooldownNotActive"
            ELSE IF now < deposit.unlock_timestamp
            THEN UnstakeResult(dk) = "ClaimCooldownNotElapsed"
            ELSE UnstakeResult(dk) \notin UnstakeCheckErrors

\* C27 witness: a withdrawn deposit in a pool that has since entered emergency
\* mode, next to a deposit whose cooldown runs: unstake reports the emergency
\* mode for both.
C27_Witness ==
    \E dk \in DOMAIN deposits, other \in DOMAIN deposits :
        /\ pools[dk[2]].emergency_mode_enabled
        /\ deposits[dk].is_withdrawn
        /\ deposits[dk].tokens_claimed > 0
        /\ UnstakeResult(dk) = "EmergencyModeEnabled"
        /\ other[2] = dk[2]
        /\ ~deposits[other].is_withdrawn
        /\ deposits[other].is_cooldown_active
        /\ now < deposits[other].unlock_timestamp
        /\ UnstakeResult(other) = "EmergencyModeEnabled"

\* What a step that commits an unstake writes, pays and leaves alone.
C28_Step ==
    Commits("unstake") =>
        LET dk == LastDeposit(last')
            pk == last'.pool
            staker == last'.signer
            pool == pools[pk]
            deposit == deposits[dk]
            amount == deposit.tokens_deposited
            reward == (amount * pool.current_rewards) \div pool.current_tokens_staked
        IN  /\ ~deposit.is_withdrawn
            /\ deposits' = [deposits EXCEPT ![dk] = [deposit EXCEPT !.is_withdrawn = TRUE,
                                                                   !.tokens_claimed = reward]]
            /\ staker_stats' = [staker_stats EXCEPT ![staker] = @ - amount]
            /\ pools' = [pools EXCEPT ![pk] = [pool EXCEPT !.current_tokens_staked = @ - amount,
                                                          !.current_rewards = @ - reward]]
            /\ unstake_transfers(deposit, deposits'[dk].tokens_claimed) = <<amount, reward>>
            /\ pool_vault' = [pool_vault EXCEPT ![pk] = @ - amount - reward]
            /\ balance' = [balance EXCEPT ![staker] = @ + amount + reward]

\* C28: a committed unstake sets is_withdrawn and tokens_claimed = reward on
\* its deposit, lowers the staker's total and the pool's staked tokens by
\* tokens_deposited and the pool's rewards by reward, and sends the principal
\* and then the reward from the pool vault to the staker; tokens_deposited,
\* the pool's cooldown and emergency mode, and every other deposit, pool and
\* staker total stay as they were.
C28_UnstakeEffect == [][C28_Step]_vars

\* C28 witness: an unstake has paid principal and a reward while another
\* deposit of the same pool stays staked.
C28_Witness ==
    /\ last.op = "unstake"
    /\ LET dk == LastDeposit(last)
       IN  /\ deposits[dk].is_withdrawn
           /\ deposits[dk].tokens_deposited > 0
           /\ deposits[dk].tokens_claimed > 0
           /\ \E other \in ActiveInPool(last.pool) : deposits[other].tokens_deposited > 0
           /\ pools[last.pool].current_rewards > 0

\* The reward deposit second gets when it unstakes right after deposit first
\* of the same pool has unstaked.
RewardAfter(first, second) ==
    LET pool == pools[first[2]]
        first_rewards == economy_estimate_rewards(pool.current_tokens_staked,
                             deposits[first].tokens_deposited, pool.current_rewards)
        pool_after == unstake_pool(pool, deposits[first].tokens_deposited, first_rewards)
    IN  economy_estimate_rewards(pool_after.current_tokens_staked,
                                 deposits[second].tokens_deposited, pool_after.current_rewards)

\* C29: the remainder lost to floor division in an unstake is never paid out:
\* a deposit that unstakes after another deposit of its pool receives no more
\* than floor(tokens_deposited * current_rewards / current_tokens_staked) of
\* the pool as it stood before both, the remainder of the first unstake
\* staying in current_rewards.
C29_DustNeverPaid ==
    \A first \in ActiveDeposits : \A second \in ActiveInPool(first[2]) \ {first} :
        LET pool == pools[first[2]]
        IN  (/\ deposits[second].tokens_deposited > 0
             /\ pool.current_tokens_staked >= deposits[first].tokens_deposited
                                                + deposits[second].tokens_deposited) =>
                RewardAfter(first, second) <=
                    (deposits[second].tokens_deposited * pool.current_rewards)
                        \div pool.current_tokens_staked

\* A committed unstake lowers current_rewards by the floored reward alone, so
\* the remainder stays in the pool, where it counts as rewards like any other:
\* an unstake of all the staked tokens takes all the rewards. Only unstake and
\* withdraw_rewards_emergency lower current_rewards.
C29_Step ==
    /\ Commits("unstake") =>
           LET dk == LastDeposit(last')
               pool == pools[last'.pool]
               amount == deposits[dk].tokens_deposited
               reward == (amount * pool.current_rewards) \div pool.current_tokens_staked
           IN  /\ pools'[last'.pool].current_rewards = pool.current_rewards - reward
               /\ pools'[last'.pool].current_rewards * pool.current_tokens_staked >=
                      (pool.current_tokens_staked - amount) * pool.current_rewards
               /\ amount = pool.current_tokens_staked =>
                      pools'[last'.pool].current_rewards = 0
    /\ \A pk \in DOMAIN pools :
           pools'[pk].current_rewards < pools[pk].current_rewards =>
               (Commits("unstake") \/ Commits("withdraw_rewards_emergency"))

\* C29 (amended): the remainder lost to floor division in an unstake stays in
\* current_rewards after that unstake and no instruction sweeps it, but it is
\* not set apart: later unstakes compute their reward from all of
\* current_rewards, and the unstake of the last staked tokens pays all of it.
C29_DustStaysInRewards == [][C29_Step]_vars

\* C29 witness: of two equal deposits of a pool the first unstaked for no
\* reward and the last has just taken a reward, leaving the pool with no
\* rewards and no stake.
C29_Witness ==
    /\ last.op = "unstake"
    /\ pools[last.pool].current_rewards = 0
    /\ pools[last.pool].current_tokens_staked = 0
    /\ \E first \in DOMAIN deposits :
           LET second == LastDeposit(last)
           IN  /\ first[2] = last.pool
               /\ first # second
               /\ deposits[first].is_withdrawn
               /\ deposits[first].tokens_deposited = deposits[second].tokens_deposited
               /\ deposits[first].tokens_claimed = 0
               /\ deposits[second].tokens_claimed = 1

\* The accounts of the staking program as one value, and what stake, unstake
\* and unstake_emergency make of such a value: the accounts the instruction
\* commits, or the same accounts when it fails.
StakingState ==
    [pools |-> pools, deposits |-> deposits, staker_stats |-> staker_stats,
     pool_vault |-> pool_vault, balance |-> balance]

ApplyStake(st, s, pk, id, n) ==
    LET dk == <<s, pk, id>>
    IN  IF pk \notin DOMAIN st.pools \/ dk \in DOMAIN st.deposits THEN st
        ELSE IF stake_error(st.pools[pk], st.staker_stats[s], st.balance[s], n) # "Ok" THEN st
        ELSE [pools |-> [st.pools EXCEPT ![pk] = stake_pool(@, n)],
              deposits |-> st.deposits @@ (dk :> stake_deposit(n, now, st.pools[pk])),
              staker_stats |-> [st.staker_stats EXCEPT ![s] = stake_stats(@, n)],
              pool_vault |-> [st.pool_vault EXCEPT ![pk] = @ + n],
              balance |-> [st.balance EXCEPT ![s] = @ - n]]

ApplyUnstake(st, s, pk, id) ==
    LET dk == <<s, pk, id>>
    IN  IF dk \notin DOMAIN st.deposits THEN st
        ELSE IF unstake_error(st.pools[pk], st.deposits[dk], st.staker_stats[s],
                              st.pool_vault[pk], now) # "Ok" THEN st
        ELSE LET amount == st.deposits[dk].tokens_deposited
                 reward == economy_estimate_rewards(st.pools[pk].current_tokens_staked, amount,
                                                    st.pools[pk].current_rewards)
             IN  [pools |-> [st.pools EXCEPT ![pk] = unstake_pool(@, amount, reward)],
                  deposits |-> [st.deposits EXCEPT ![dk] = unstake_deposit(@, reward)],
                  staker_stats |-> [st.staker_stats EXCEPT ![s] = unstake_stats(@, amount)],
                  pool_vault |-> [st.pool_vault EXCEPT ![pk] = @ - amount - reward],
                  balance |-> [st.balance EXCEPT ![s] = @ + amount + reward]]

ApplyUnstakeEmergency(st, s, pk, id) ==
    LET dk == <<s, pk, id>>
    IN  IF dk \notin DOMAIN st.deposits THEN st
        ELSE IF unstake_emergency_error(st.pools[pk], st.deposits[dk], st.staker_stats[s],
                                        st.pool_vault[pk]) # "Ok" THEN st
        ELSE LET amount == st.deposits[dk].tokens_deposited
             IN  [pools |-> [st.pools EXCEPT ![pk] = unstake_emergency_pool(@, amount)],
                  deposits |-> [st.deposits EXCEPT ![dk] = unstake_emergency_deposit(@)],
                  staker_stats |-> [st.staker_stats EXCEPT
                                       ![s] = unstake_emergency_stats(@, amount)],
                  pool_vault |-> [st.pool_vault EXCEPT ![pk] = @ - amount],
                  balance |-> [st.balance EXCEPT ![s] = @ + amount]]

\* The operations the commutation is about, and one of them applied.
DisjointOps == {"stake", "unstake", "unstake_emergency"}

Apply(op, st, s, pk, id) ==
    CASE op = "stake" -> ApplyStake(st, s, pk, id, 1)
      [] op = "unstake" -> ApplyUnstake(st, s, pk, id)
      [] op = "unstake_emergency" -> ApplyUnstakeEmergency(st, s, pk, id)

\* From this state, operations of two different stakers on two different
\* pools end in the same accounts and balances in either order.
C30_Commute ==
    \A a \in Stakers, b \in Stakers, p \in DOMAIN pools, q \in DOMAIN pools :
        (a # b /\ p # q) =>
            \A op_a \in DisjointOps, op_b \in DisjointOps, id_a \in DepositIds, id_b \in DepositIds :
                Apply(op_b, Apply(op_a, StakingState, a, p, id_a), b, q, id_b)
                    = Apply(op_a, Apply(op_b, StakingState, b, q, id_b), a, p, id_a)

\* No state shows a half-updated record: every pool counts the deposits staked
\* in it and every staker total the deposits staked by the staker.
C30_Whole ==
    /\ \A pk \in DOMAIN pools : pools[pk].current_tokens_staked = SumDeposited(ActiveInPool(pk))
    /\ \A s \in Stakers : staker_stats[s] = SumDeposited(ActiveOfStaker(s))

\* A committed stake, unstake or unstake_emergency is that operation applied
\* whole to the accounts before it.
C30_Step ==
    /\ Commits("stake") =>
           StakingState' = ApplyStake(StakingState, last'.signer, last'.pool, last'.deposit_id, 1)
    /\ Commits("unstake") =>
           StakingState' = ApplyUnstake(StakingState, last'.signer, last'.pool, last'.deposit_id)
    /\ Commits("unstake_emergency") =>
           StakingState' =
               ApplyUnstakeEmergency(StakingState, last'.signer, last'.pool, last'.deposit_id)

\* C30: stake, unstake and unstake_emergency of two different stakers on
\* deposits in two different pools yield the same pools, deposits, staker
\* totals and payouts in either order; every instruction is committed whole,
\* so that no state an instruction starts from has a half-updated record.
C30_DisjointCommute == [](C30_Commute /\ C30_Whole) /\ [][C30_Step]_vars

\* C30 witness: two stakers have each unstaked, with a reward, from a pool of
\* their own.
C30_Witness ==
    /\ last.op = "unstake"
    /\ \E dk \in DOMAIN deposits :
           LET mine == LastDeposit(last)
           IN  /\ dk[1] # mine[1]
               /\ dk[2] # mine[2]
               /\ deposits[dk].is_withdrawn
               /\ deposits[dk].tokens_claimed > 0
               /\ deposits[mine].tokens_claimed > 0

\* C31: an arithmetic failure of a staking instruction is reported as an
\* error of the program: no fund_pool, stake or unstake ends in a panic on an
\* overflowing counter or on a division by current_tokens_staked = 0.
C31_ArithmeticError ==
    /\ \A dk \in DOMAIN deposits : UnstakeResult(dk) # "Panic"
    /\ \A pk \in DOMAIN pools : \A s \in Users, n \in 0..U64Max :
           /\ fund_pool_error(pools[pk], pk[1], s, balance[s], n) # "Panic"
           /\ stake_error(pools[pk], staker_stats[s], balance[s], n) # "Panic"

\* The instructions that act on an existing deposit.
DepositOps == {"activate_cooldown", "unstake", "unstake_emergency"}

C32_Rejected ==
    \A dk \in DOMAIN deposits : \A s \in DOMAIN staker_stats :
        s # dk[1] => deposit_seeds_error(s, dk[2], dk[3], dk) = "ConstraintSeeds"

C32_Step ==
    /\ \A dk \in DOMAIN deposits :
           deposits'[dk] # deposits[dk]
               => /\ last'.op \in DepositOps
                  /\ last'.signer = dk[1]
                  /\ LastDeposit(last') = dk
    /\ \A s \in DOMAIN staker_stats :
           staker_stats'[s] # staker_stats[s] => last'.signer = s
    /\ \A dk \in DOMAIN deposits :
           (~deposits[dk].is_withdrawn /\ deposits'[dk].is_withdrawn)
               => /\ balance'[dk[1]] >= balance[dk[1]] + deposits[dk].tokens_deposited
                  /\ pools'[dk[2]].current_tokens_staked
                         = pools[dk[2]].current_tokens_staked - deposits[dk].tokens_deposited
    /\ (last'.op \in DepositOps /\ vars' # vars)
           => /\ \A u \in DOMAIN balance : u # last'.signer => balance'[u] = balance[u]
              /\ \A pk \in DOMAIN pools : pk # last'.pool => pools'[pk] = pools[pk]
              /\ pools'[last'.pool] # pools[last'.pool]
                     => deposits'[LastDeposit(last')] # deposits[LastDeposit(last')]

\* C32: only the staker who created a deposit can act on it: activate_cooldown,
\* unstake and unstake_emergency signed by another party are rejected, and a step
\* that changes a deposit, a staker's aggregate or the pool totals, or that pays
\* out a principal, is an instruction signed by the owner of the deposit it is
\* about and pays the signer alone.
C32_OwnerOnly == [][C32_Step]_vars /\ []C32_Rejected

\* Bob has unstaked his deposit while Alice's deposit in the same pool, its
\* cooldown active, was there for him to try.
C32_Witness ==
    /\ last.op = "unstake"
    /\ last.signer = "bob"
    /\ <<"alice", last.pool, 1>> \in DOMAIN deposits
    /\ ~deposits[<<"alice", last.pool, 1>>].is_withdrawn
    /\ deposits[<<"alice", last.pool, 1>>].is_cooldown_active
    /\ deposits[<<"alice", last.pool, 1>>].tokens_deposited > 0

\* What propose_transfer and approve_transfer signed by key k return.
ProposeResult(vk, k) == propose_transfer_error(vaults[vk], k)

ApproveResult(pk, k) == approve_transfer_error(vaults[pk[1]], proposals[pk], k)

\* The signers whose approval of proposal pk is recorded.
ApproversOf(vault, proposal) ==
    {vault.signers[i] : i \in {j \in DOMAIN proposal.approvals : proposal.approvals[j]}}

Approvers(pk) == ApproversOf(vaults[pk[1]], proposals[pk])

C33_Rejected ==
    /\ \A vk \in DOMAIN vaults : \A k \in Keys :
           ~signers_contains(vaults[vk].signers, k) => ProposeResult(vk, k) = "InvalidSigner"
    /\ \A pk \in DOMAIN proposals : \A k \in Keys :
           /\ ~signers_contains(vaults[pk[1]].signers, k)
                  => /\ ApproveResult(pk, k) # "Ok"
                     /\ ~proposals[pk].executed => ApproveResult(pk, k) = "InvalidSigner"
           /\ k \in Approvers(pk)
                  => /\ ApproveResult(pk, k) # "Ok"
                     /\ ~proposals[pk].executed => ApproveResult(pk, k) = "AlreadyApproved"

C33_Count ==
    \A pk \in DOMAIN proposals :
        /\ DOMAIN proposals[pk].approvals = DOMAIN vaults[pk[1]].signers
        /\ Approvals(pk) <= Len(vaults[pk[1]].signers)
        /\ Cardinality(Approvers(pk)) = approval_count(proposals[pk].approvals)
        /\ Approvers(pk) \subseteq {vaults[pk[1]].signers[i] : i \in DOMAIN vaults[pk[1]].signers}

C33_Step ==
    /\ Commits("propose_transfer")
           => /\ signers_contains(vaults[last'.pool].signers, last'.signer)
              /\ LastProposal(last') \notin DOMAIN proposals
              /\ ApproversOf(vaults'[last'.pool], proposals'[LastProposal(last')]) = {last'.signer}
    /\ Commits("approve_transfer")
           => /\ signers_contains(vaults[last'.pool].signers, last'.signer)
              /\ last'.signer \notin Approvers(LastProposal(last'))
              /\ ApproversOf(vaults'[last'.pool], proposals'[LastProposal(last')])
                     = Approvers(LastProposal(last')) \cup {last'.signer}
              /\ approval_count(proposals'[LastProposal(last')].approvals)
                     = Approvals(LastProposal(last')) + 1
    /\ \A pk \in DOMAIN proposals :
           proposals'[pk].approvals # proposals[pk].approvals
               => last'.op = "approve_transfer" /\ LastProposal(last') = pk

\* C33: only keys listed in vault.signers propose or approve (another key is
\* rejected, with InvalidSigner while the proposal is not executed), an approval
\* is recorded once per signer (a repeated approve_transfer is rejected, with
\* AlreadyApproved while the proposal is not executed), so the approvals of a
\* proposal never outnumber the signers of the vault and each one belongs to a
\* distinct signer.
C33_SignersOnly == [](C33_Rejected /\ C33_Count) /\ [][C33_Step]_vars

\* A second signer has just approved a proposal of a vault that one key is
\* not a signer of.
C33_Witness ==
    /\ last.op = "approve_transfer"
    /\ LastProposal(last) \in DOMAIN proposals
    /\ Approvals(LastProposal(last)) = 2
    /\ \E k \in Keys : ~signers_contains(vaults[last.pool].signers, k)

C34_Solvent ==
    \A pk \in DOMAIN pools :
        /\ pool_vault[pk] = pools[pk].current_tokens_staked + pools[pk].current_rewards
        /\ pool_vault[pk] >= SumDeposited(ActiveInPool(pk))

C34_Step ==
    Commits("withdraw_rewards_emergency")
        => /\ pool_vault'[last'.pool] = pool_vault[last'.pool] - pools[last'.pool].current_rewards
           /\ pool_vault'[last'.pool] = pools'[last'.pool].current_tokens_staked
           /\ pool_vault'[last'.pool] >= SumDeposited(ActiveInPool(last'.pool))

\* C34: when every instruction is handed the pool's own vault, the vault holds
\* exactly current_tokens_staked + current_rewards in every reachable state, so
\* it holds at least the principal of every deposit not withdrawn, also after
\* withdraw_rewards_emergency has paid the rewards out.
C34_VaultSolvency == []C34_Solvent /\ [][C34_Step]_vars

\* The creator has withdrawn the rewards of a pool that still holds a deposit.
C34_Witness ==
    /\ last.op = "withdraw_rewards_emergency"
    /\ pools[last.pool].current_rewards = 0
    /\ SumDeposited(ActiveInPool(last.pool)) > 0
    /\ balance[last.signer] > 0

\* The rewards deposit records ds hold as claimed, summed over keys.
RECURSIVE SumClaimed(_, _)
SumClaimed(ds, keys) ==
    IF keys = {} THEN 0
    ELSE LET dk == CHOOSE k \in keys : TRUE
         IN  ds[dk].tokens_claimed + SumClaimed(ds, keys \ {dk})

\* The rewards pool pk accounts for: those it still holds and those its
\* deposits have claimed.
RewardLedger(ps, ds, pk) ==
    IF pk \in DOMAIN ps
    THEN ps[pk].current_rewards + SumClaimed(ds, {dk \in DOMAIN ds : dk[2] = pk})
    ELSE 0

C35_Claimed ==
    \A dk \in DOMAIN deposits : ~deposits[dk].is_withdrawn => deposits[dk].tokens_claimed = 0

C35_Step ==
    \A pk \in DOMAIN pools' :
        LET before == RewardLedger(pools, deposits, pk)
            after == RewardLedger(pools', deposits', pk)
        IN  /\ (last'.pool = pk /\ (Commits("create_pool") \/ Commits("fund_pool")))
                   => after - before = balance[last'.signer] - balance'[last'.signer]
            /\ (last'.pool = pk /\ Commits("withdraw_rewards_emergency"))
                   => /\ before - after = balance'[last'.signer] - balance[last'.signer]
                      /\ before - after = pools[pk].current_rewards
            /\ (last'.pool = pk /\ Commits("unstake"))
                   => /\ after = before
                      /\ balance'[last'.signer] - balance[last'.signer]
                             = deposits[LastDeposit(last')].tokens_deposited
                                   + deposits'[LastDeposit(last')].tokens_claimed
            /\ ~(last'.pool = pk /\ last'.op \in {"create_pool", "fund_pool", "withdraw_rewards_emergency"})
                   => after = before

\* C35: rewards are neither created nor lost: the rewards a pool holds plus the
\* rewards its deposits have claimed through unstake grow by exactly the amount
\* funded in create_pool and fund_pool, fall by exactly the amount
\* withdraw_rewards_emergency pays out, and are left unchanged by every other
\* instruction; unstake pays the reward it records in the deposit.
C35_RewardConservation == []C35_Claimed /\ [][C35_Step]_vars

\* The creator has withdrawn what was left of the rewards after a deposit
\* claimed its share.
C35_Witness ==
    /\ last.op = "withdraw_rewards_emergency"
    /\ pools[last.pool].current_rewards = 0
    /\ \E dk \in DOMAIN deposits :
           dk[2] = last.pool /\ deposits[dk].is_withdrawn /\ deposits[dk].tokens_claimed > 0

\* The deposits of pool pk that hold all its staked tokens.
SoleDeposits(pk) ==
    {dk \in ActiveInPool(pk) : deposits[dk].tokens_deposited = pools[pk].current_tokens_staked}

C36_Reward ==
    \A pk \in DOMAIN pools : \A dk \in SoleDeposits(pk) :
        pools[pk].current_tokens_staked > 0 =>
        economy_estimate_rewards(pools[pk].current_tokens_staked, deposits[dk].tokens_deposited,
                                 pools[pk].current_rewards) = pools[pk].current_rewards

C36_Step ==
    (Commits("unstake") /\ LastDeposit(last') \in SoleDeposits(last'.pool))
        => LET dk == LastDeposit(last')
               pk == last'.pool
           IN  /\ deposits'[dk].tokens_claimed = pools[pk].current_rewards
               /\ balance'[last'.signer] - balance[last'.signer]
                      = deposits[dk].tokens_deposited + pools[pk].current_rewards
               /\ pool_vault[pk] - pool_vault'[pk]
                      = deposits[dk].tokens_deposited + pools[pk].current_rewards
               /\ pools'[pk].current_rewards = 0
               /\ pools'[pk].current_tokens_staked = 0

\* C36: when the deposit being unstaked holds all the staked tokens of its pool
\* (tokens_deposited = current_tokens_staked), unstake pays all of
\* current_rewards as the reward and leaves the pool with current_rewards = 0
\* and current_tokens_staked = 0.
C36_SoleDeposit == []C36_Reward /\ [][C36_Step]_vars

\* The last deposit of a pool has unstaked with a reward after another
\* deposit of the pool had left.
C36_Witness ==
    /\ last.op = "unstake"
    /\ deposits[LastDeposit(last)].tokens_claimed > 0
    /\ pools[last.pool].current_rewards = 0
    /\ pools[last.pool].current_tokens_staked = 0
    /\ \E other \in DOMAIN deposits :
           /\ other[2] = last.pool
           /\ other # LastDeposit(last)
           /\ deposits[other].is_withdrawn
           /\ deposits[other].tokens_deposited > 0

\* The reward a deposit of amount tokens would receive from pool on unstaking now.
RewardNow(pool, amount) ==
    economy_estimate_rewards(pool.current_tokens_staked, amount, pool.current_rewards)

\* The pool after deposit first has unstaked from it.
PoolAfter(first) ==
    unstake_pool(pools[first[2]], deposits[first].tokens_deposited,
                 RewardNow(pools[first[2]], deposits[first].tokens_deposited))

C37_Order ==
    \A first \in ActiveDeposits :
        LET pool == pools[first[2]]
        IN  /\ \A amount \in 1..(pool.current_tokens_staked - deposits[first].tokens_deposited) :
                   /\ RewardNow(PoolAfter(first), amount) >= RewardNow(pool, amount)
                   /\ RewardNow(PoolAfter(first), amount)
                          >= (amount * pool.current_rewards) \div pool.current_tokens_staked
            /\ \A second \in ActiveInPool(first[2]) \ {first} :
                   deposits[second].tokens_deposited > 0
                       => RewardAfter(first, second)
                              >= RewardNow(pool, deposits[second].tokens_deposited)

C37_Step ==
    /\ Commits("unstake")
           => /\ pools'[last'.pool] = PoolAfter(LastDeposit(last'))
              /\ deposits'[LastDeposit(last')].tokens_claimed
                     = RewardNow(pools[last'.pool], deposits[LastDeposit(last')].tokens_deposited)
    /\ \A dk \in ActiveDeposits :
           (/\ last'.op \notin {"stake", "fund_pool"}
            /\ deposits[dk].tokens_deposited > 0
            /\ ~deposits'[dk].is_withdrawn
            /\ ~pools'[dk[2]].emergency_mode_enabled)
               => RewardNow(pools'[dk[2]], deposits[dk].tokens_deposited)
                      >= RewardNow(pools[dk[2]], deposits[dk].tokens_deposited)

\* C37: unstake order never lowers a reward: with no stake or fund_pool in
\* between, a deposit that unstakes after other deposits of its pool receives
\* at least floor(tokens_deposited * R / S), the reward it would have received
\* had it unstaked first from the pool with R rewards and S staked tokens; the
\* orders differ only by what floor division left to the later one.
C37_OrderNeverLowers == []C37_Order /\ [][C37_Step]_vars

\* Of two equal deposits of a pool the one that unstaked last received more.
C37_Witness ==
    /\ last.op = "unstake"
    /\ \E first \in DOMAIN deposits :
           LET second == LastDeposit(last)
           IN  /\ first[2] = last.pool
               /\ first # second
               /\ deposits[first].is_withdrawn
               /\ deposits[first].tokens_deposited = deposits[second].tokens_deposited
               /\ deposits[second].tokens_claimed > deposits[first].tokens_claimed

====
